---- MODULE Spec2Model ----
(***************************************************************************)
(* TaxPilot: transaction reconciliation and tax-matching pipeline.         *)
(*                                                                         *)
(* Money is modelled in integer minor units (0.01), NBP rates in units of  *)
(* 1/RateScale, quantities in whole units; Decimal arithmetic is exact in  *)
(* these scaled integers and quantize(0.01, ROUND_HALF_UP) is RoundHalfUp. *)
(***************************************************************************)
EXTENDS Integers, Sequences, FiniteSets, TLC

VARIABLES
    \* ---- FifoEngine.process (services/fifo_engine.py)
    pc,              \* position inside process()
    transactions,    \* the argument of process()
    buys_sells,      \* filtered + sorted list (indices into transactions)
    pos,             \* index of the for-loop over buys_sells
    remaining,       \* buy_remaining / sell_remaining of the current tx
    buy_queues,      \* symbol -> sequence of BuyLot
    short_queues,    \* symbol -> sequence of ShortLot
    short_order,     \* key insertion order of the short_queues dict
    buy_order,       \* key insertion order of the buy_queues dict
    matches,         \* result.matches
    warnings,        \* result.warnings
    open_positions,  \* result.open_positions
    \* ---- _dedup_transactions (main.py)
    d_pc,            \* position inside _dedup_transactions()
    dedup_arg,       \* the argument `transactions` of the current call
    deduped,         \* the local list `deduped`
    before_pass,     \* `deduped` as it was before the pass that ran last
    results,         \* what the calls made so far have returned
    \* ---- NbpClient.get_rate (services/nbp_client.py)
    r_pc,            \* position inside get_rate()
    currency,        \* argument `currency`, as given by the caller
    for_date,        \* argument `for_date` (a date ordinal)
    target,          \* previous_business_day(for_date); 0 before it is set
    candidate,       \* the date the next remote fetch asks for
    attempts,        \* the loop counter
    nbp_rates,       \* the cache table: a set of rows
    fetched,         \* the dates asked of the remote API, in order
    cache_lookups,   \* the _get_cached_rate calls made, in order
    rate_result,     \* what get_rate returned
    \* ---- TaxReportGenerator.generate, steps 3-4 (services/tax_report.py)
    t_pc,            \* position inside steps 3-4 of generate()
    tax_year,        \* the argument `tax_year`
    year_matches,    \* the matches filtered to the tax year
    prior_year_losses, \* the argument: <<amount>>, or <<>> when not supplied
    total_revenue,
    total_costs,
    profit,
    tax_due,
    tax_warnings,    \* the list `warnings` of generate()
    \* ---- DividendCalculator.calculate and step 5 of generate()
    v_pc,            \* position inside calculate() / step 5
    div_transactions, \* the argument of calculate(): year_divs
    dividends,       \* the DIVIDEND records (indices into div_transactions)
    wht_entries,     \* the TAX_WHT records (indices into div_transactions)
    div_pos,         \* index of the for-loop over dividends
    div_results,     \* the list `results`
    div_log,         \* what calculate() wrote to the logger
    dividend_summary, \* the DividendSummary of the report
    \* ---- settlement_date_for_trade (services/nbp_client.py)
    s_pc,            \* position inside settlement_date_for_trade()
    settle_trade_date, \* argument `trade_date` (a date ordinal)
    exchange_country, \* argument `exchange_country`
    offset,          \* 1 or 2 once chosen; 0 before
    settle,          \* the date the loop has reached
    days_added,      \* weekdays counted so far
    \* ---- NbpClient.fetch_table_for_year (services/nbp_client.py)
    f_pc,            \* position inside fetch_table_for_year()
    fetch_year,      \* argument `year`
    today,           \* date.today() as read on entry
    chunk_start,     \* first day of the next window
    year_end,        \* min(31 December, today)
    total_tables,    \* tables stored so far
    requests,        \* the table requests sent, in order, with their outcome
    \* ---- concurrent writers of the cache table (services/nbp_client.py)
    writers,         \* writer -> what it is (single fetch / bulk) and its rows
    w_pc,            \* writer -> position inside its fetch-and-store code
    w_pos,           \* writer -> rows executed inside its transaction
    db_lock,         \* the writer holding the database's write lock; 0 = free
    txn,             \* the table as the lock holder's open transaction sees it
    \* ---- TaxReportGenerator.generate as a whole (services/tax_report.py)
    g_pc,            \* position inside generate()
    gen_transactions, \* the argument `transactions`; enrichment writes into it
    prefetch_years,  \* the years _enrich_nbp_rates has still to pre-fetch
    g_pos,           \* index of the for-loop of _enrich_nbp_rates
    pit_zg,          \* the country breakdown (step 6)
    open_pos,        \* the list `open_pos` (step 7)
    portfolio,       \* `portfolio`: None, or <<the PortfolioReport>>
    report,          \* the TaxReport returned: None, or <<the report>>
    \* ---- process() called on a list and again on one symbol's records
    x_pc,            \* "all": the call on the whole list; "only": the second
    x_symbol,        \* the symbol whose results are compared
    x_first          \* the first call's result for that symbol, and its list

fifoVars == <<pc, transactions, buys_sells, pos, remaining, buy_queues,
              short_queues, short_order, buy_order, matches, warnings,
              open_positions>>

dedupVars == <<d_pc, dedup_arg, deduped, before_pass, results>>

rateVars == <<r_pc, currency, for_date, target, candidate, attempts,
              nbp_rates, fetched, cache_lookups, rate_result>>

taxVars == <<t_pc, tax_year, year_matches, prior_year_losses, total_revenue,
             total_costs, profit, tax_due, tax_warnings>>

divVars == <<v_pc, div_transactions, dividends, wht_entries, div_pos,
             div_results, div_log, dividend_summary>>

settleVars == <<s_pc, settle_trade_date, exchange_country, offset, settle,
                days_added>>

fetchVars == <<f_pc, fetch_year, today, chunk_start, year_end, total_tables,
               requests>>

againVars == <<x_pc, x_symbol, x_first>>

genVars == <<g_pc, gen_transactions, prefetch_years, g_pos, pit_zg, open_pos,
            portfolio, report>>

writerVars == <<writers, w_pc, w_pos, db_lock, txn>>

vars == <<fifoVars, dedupVars, rateVars, taxVars, divVars, settleVars,
          fetchVars,
    writerVars,
    genVars,
    againVars>>

\* What an action of one component leaves alone.
nonFifoVars == <<dedupVars, rateVars, taxVars, divVars, settleVars, fetchVars,
    writerVars,
    genVars,
    againVars>>

nonDedupVars == <<fifoVars, rateVars, taxVars, divVars, settleVars, fetchVars,
    writerVars,
    genVars,
    againVars>>

nonRateVars == <<fifoVars, dedupVars, taxVars, divVars, settleVars, fetchVars,
    writerVars,
    genVars,
    againVars>>

nonTaxVars == <<fifoVars, dedupVars, rateVars, divVars, settleVars, fetchVars,
    writerVars,
    genVars,
    againVars>>

nonDivVars == <<fifoVars, dedupVars, rateVars, taxVars, settleVars, fetchVars,
    writerVars,
    genVars,
    againVars>>

nonSettleVars == <<fifoVars, dedupVars, rateVars, taxVars, divVars, fetchVars,
    writerVars,
    genVars,
    againVars>>

\* The steps of generate() outside the engine, the summary and the
\* calculator touch, besides their own variables, the list `warnings`
\* (tax_warnings), the arguments handed to the engine and the calculator, and
\* the logger of the calculator; each names what it leaves alone.
nonGenVars == <<dedupVars, rateVars, settleVars, fetchVars, writerVars,
    againVars>>

fifoStateVars == <<buys_sells, pos, remaining, buy_queues, short_queues,
                   short_order, buy_order, matches, warnings, open_positions>>

taxStateVars == <<t_pc, tax_year, year_matches, prior_year_losses,
                  total_revenue, total_costs, profit, tax_due>>

divStateVars == <<dividends, wht_entries, div_pos, div_results,
                  dividend_summary>>

\* The writers write the cache table and nothing else.
nonWriterVars == <<fifoVars, dedupVars, taxVars, divVars, settleVars,
                   fetchVars,
                   r_pc, currency, for_date, target, candidate, attempts,
                   fetched, cache_lookups, rate_result,
    genVars,
    againVars>>

\* fetch_table_for_year writes the cache table and nothing else of get_rate.
nonFetchVars == <<fifoVars, dedupVars, taxVars, divVars, settleVars,
                  r_pc, currency, for_date, target, candidate, attempts,
                  fetched, cache_lookups, rate_result,
    writerVars,
    genVars,
    againVars>>

----------------------------------------------------------------------------
(* Bounds and input domains                                                *)

MaxLen == 3          \* longest transaction list given to process()
MaxMoneyLen == 2     \* longest list in the commission/rounding runs
MaxDedupLen == 3     \* longest list given to _dedup_transactions()
WindowDays == 21     \* length of each window of dates given to get_rate()
MaxTaxMatches == 2   \* most matches in the tax year of a report
MaxDivLen == 3       \* longest list given to DividendCalculator.calculate()
MaxAnyLen == 3       \* longest list of unchecked records given to process()
MaxGenLen == 2       \* longest list given to generate(), the scenarios apart
SettleWindowDays == 16 \* length of the window of trade dates around the cutover

Symbols == {"AAA", "BBB"}
TradeDates == {1, 2}
Quantities == {1, 2}
MoneyQuantities == {1, 2, 3}
MoneyPrices == {3}
MoneyCommissions == {0, 1, 5}

\* Rates are held in hundredths: 400 is the rate 4.00.
RateScale == 10 * 10
MoneyRates == {100, 150}

BUY == "BUY"
SELL == "SELL"
DIVIDEND == "DIVIDEND"
TAX_WHT == "TAX_WHT"

Range(s) == {s[i] : i \in DOMAIN s}

SeqsUpTo(S, n) == UNION {[1..k -> S] : k \in 0..n}

Min(a, b) == IF a <= b THEN a ELSE b

Max(a, b) == IF a >= b THEN a ELSE b

----------------------------------------------------------------------------
(* Decimal helpers                                                         *)

\* Decimal(n/d).quantize(TWO_PLACES, ROUND_HALF_UP), d > 0: nearest integer,
\* ties away from zero.
RoundHalfDown(n, d) ==
    IF n >= 0 THEN (2 * n + d - 1) \div (2 * d)
              ELSE -((2 * (-n) + d - 1) \div (2 * d))

RoundHalfUp(n, d) ==
    IF n >= 0 THEN (2 * n + d) \div (2 * d)
              ELSE -((2 * (-n) + d) \div (2 * d))

\* `tx.nbp_rate or Decimal("1")`: a missing (0) rate counts as 1.
RateOr1(r) == IF r = 0 THEN RateScale ELSE r

----------------------------------------------------------------------------
(* FifoEngine                                                              *)

Tx(sym, td, act, q, p, c, r) ==
    [symbol |-> sym, trade_date |-> td, action |-> act, quantity |-> q,
     price |-> p, commission |-> c, nbp_rate |-> r]

\* buys_sells = [t for t in transactions if t.action in (BUY, SELL)]
FilterBuysSells(txs) ==
    LET F[i \in 0..Len(txs)] ==
            IF i = 0 THEN <<>>
            ELSE IF txs[i].action \in {BUY, SELL} THEN Append(F[i - 1], i)
                 ELSE F[i - 1]
    IN F[Len(txs)]

\* Insert index x into the sorted index list s after every element whose
\* trade_date is <= that of x (list.sort is stable).
InsertByDate(txs, s, x) ==
    LET k == Cardinality({j \in DOMAIN s :
                             txs[s[j]].trade_date <= txs[x].trade_date})
    IN SubSeq(s, 1, k) \o <<x>> \o SubSeq(s, k + 1, Len(s))

UnsortedByTradeDate(txs, idx) == idx

\* buys_sells.sort(key=lambda t: t.trade_date)
SortByTradeDate(txs, idx) ==
    LET S[i \in 0..Len(idx)] ==
            IF i = 0 THEN <<>> ELSE InsertByDate(txs, S[i - 1], idx[i])
    IN S[Len(idx)]

MatchedQtyWholeLot(left_to_match, lot_remaining) == lot_remaining

MatchedQtyAllLeft(left_to_match, lot_remaining) == left_to_match

\* matched_qty = min(buy_remaining / sell_remaining, lot.remaining_qty)
MatchedQty(left_to_match, lot_remaining) == Min(left_to_match, lot_remaining)

\* `commission * quantity / total_qty` raises (decimal.DivisionByZero or
\* InvalidOperation) when total_qty is 0.
DividesByZero(total_qty) == total_qty = 0

HasRemainingOrNone(q) == q >= 0

HasRemainingAlways(q) == TRUE

\* `if buy_remaining > 0:` / `if sell_remaining > 0:` (lines 111, 142)
HasRemaining(q) == q > 0

\* Proportional commission share of `quantity` out of `total_qty`.
CommissionShare(tx, quantity, total_qty) ==
    RoundHalfUp(tx.commission * quantity, total_qty)

CreateMatchNoBuyCommission(symbol, quantity, b, s, buy_total_qty, sell_total_qty) ==
    LET buy_tx == transactions[b]
        sell_tx == transactions[s]
        buy_rate == RateOr1(buy_tx.nbp_rate)
        sell_rate == RateOr1(sell_tx.nbp_rate)
        buy_commission_share == CommissionShare(buy_tx, quantity, buy_total_qty)
        sell_commission_share == CommissionShare(sell_tx, quantity, sell_total_qty)
        buy_cost_pln == RoundHalfUp((buy_tx.price * quantity) * buy_rate, RateScale)
        sell_revenue_pln ==
            RoundHalfUp((sell_tx.price * quantity - sell_commission_share) * sell_rate,
                        RateScale)
    IN [symbol |-> symbol, quantity |-> quantity,
        buy_date |-> buy_tx.trade_date, buy_price |-> buy_tx.price,
        buy_commission |-> buy_commission_share, buy_nbp_rate |-> buy_rate,
        buy_cost_pln |-> buy_cost_pln,
        sell_date |-> sell_tx.trade_date, sell_price |-> sell_tx.price,
        sell_commission |-> sell_commission_share, sell_nbp_rate |-> sell_rate,
        sell_revenue_pln |-> sell_revenue_pln,
        profit_pln |-> sell_revenue_pln - buy_cost_pln,
        is_orphan |-> FALSE, is_short |-> FALSE,
        buy_tx |-> b, sell_tx |-> s]

\* FifoEngine._create_match; b and s are the positions of the buy and the
\* sell in `transactions` (the objects the match was built from).
CreateMatch(symbol, quantity, b, s, buy_total_qty, sell_total_qty) ==
    LET buy_tx == transactions[b]
        sell_tx == transactions[s]
        buy_rate == RateOr1(buy_tx.nbp_rate)
        sell_rate == RateOr1(sell_tx.nbp_rate)
        buy_commission_share == CommissionShare(buy_tx, quantity, buy_total_qty)
        sell_commission_share == CommissionShare(sell_tx, quantity, sell_total_qty)
        buy_cost_pln ==
            RoundHalfUp((buy_tx.price * quantity + buy_commission_share) * buy_rate,
                        RateScale)
        sell_revenue_pln ==
            RoundHalfUp((sell_tx.price * quantity - sell_commission_share) * sell_rate,
                        RateScale)
    IN [symbol |-> symbol, quantity |-> quantity,
        buy_date |-> buy_tx.trade_date, buy_price |-> buy_tx.price,
        buy_commission |-> buy_commission_share, buy_nbp_rate |-> buy_rate,
        buy_cost_pln |-> buy_cost_pln,
        sell_date |-> sell_tx.trade_date, sell_price |-> sell_tx.price,
        sell_commission |-> sell_commission_share, sell_nbp_rate |-> sell_rate,
        sell_revenue_pln |-> sell_revenue_pln,
        profit_pln |-> sell_revenue_pln - buy_cost_pln,
        is_orphan |-> FALSE, is_short |-> FALSE,
        buy_tx |-> b, sell_tx |-> s]

\* FifoEngine._create_orphan_match; buy_tx = 0 records that there is no buy.
CreateOrphanMatch(symbol, quantity, s, sell_total_qty) ==
    LET sell_tx == transactions[s]
        sell_rate == RateOr1(sell_tx.nbp_rate)
        sell_commission_share == CommissionShare(sell_tx, quantity, sell_total_qty)
        sell_revenue_pln ==
            RoundHalfUp((sell_tx.price * quantity - sell_commission_share) * sell_rate,
                        RateScale)
    IN [symbol |-> symbol, quantity |-> quantity,
        buy_date |-> sell_tx.trade_date, buy_price |-> 0,
        buy_commission |-> 0, buy_nbp_rate |-> 0,
        buy_cost_pln |-> 0,
        sell_date |-> sell_tx.trade_date, sell_price |-> sell_tx.price,
        sell_commission |-> sell_commission_share, sell_nbp_rate |-> sell_rate,
        sell_revenue_pln |-> sell_revenue_pln,
        profit_pln |-> sell_revenue_pln,
        is_orphan |-> TRUE, is_short |-> FALSE,
        buy_tx |-> 0, sell_tx |-> s]

\* The "BRAK KUPNA" warning text, by its parameters.
OrphanWarning(symbol, lot) ==
    [kind |-> "BRAK KUPNA", symbol |-> symbol, quantity |-> lot.remaining_qty,
     date |-> transactions[lot.transaction].trade_date]

Lot(t, q) == [transaction |-> t, remaining_qty |-> q]

QueueOfFirstKey(queues, order, symbol) ==
    IF order = <<>> THEN <<>> ELSE queues[order[1]]

\* dict.get(key) of a defaultdict(deque): the deque, or nothing (<<>>).
QueueOf(queues, order, symbol) ==
    IF symbol \in Range(order) THEN queues[symbol] ELSE <<>>

\* queues[symbol]: creates the key on first use.
Touch(order, symbol) ==
    IF symbol \in Range(order) THEN order ELSE Append(order, symbol)

AllSymbols == {transactions[i].symbol : i \in DOMAIN transactions}

CurTx == transactions[buys_sells[pos]]

\* Lines 69-80: result, filter, sort, empty queues.
Start ==
    /\ pc = "start"
    /\ buys_sells' = SortByTradeDate(transactions, FilterBuysSells(transactions))
    /\ pos' = 1
    /\ pc' = "loop"
    /\ UNCHANGED <<transactions, remaining, buy_queues, short_queues,
                   short_order, buy_order, matches, warnings, open_positions>>
    /\ UNCHANGED nonFifoVars

\* Lines 82-85 / 116-118: take the next transaction of the for-loop.
NextTx ==
    /\ pc = "loop"
    /\ pos <= Len(buys_sells)
    /\ remaining' = CurTx.quantity
    /\ pc' = IF CurTx.action = BUY THEN "cover" ELSE "match"
    /\ UNCHANGED <<transactions, buys_sells, pos, buy_queues, short_queues,
                   short_order, buy_order, matches, warnings, open_positions>>
    /\ UNCHANGED nonFifoVars

\* Lines 89-108: one iteration of the short-covering while-loop of a BUY.
CoverStep ==
    /\ pc = "cover"
    /\ LET sym == CurTx.symbol
           short_queue == QueueOf(short_queues, short_order, sym)
       IN /\ remaining > 0
          /\ short_queue # <<>>
          /\ LET short_lot == Head(short_queue)
                 matched_qty == MatchedQty(remaining, short_lot.remaining_qty)
                 match == [CreateMatch(sym, matched_qty, buys_sells[pos],
                                       short_lot.transaction, CurTx.quantity,
                                       transactions[short_lot.transaction].quantity)
                             EXCEPT !.is_short = TRUE]
                 left == short_lot.remaining_qty - matched_qty
             IN IF \/ DividesByZero(CurTx.quantity)
                   \/ DividesByZero(transactions[short_lot.transaction].quantity)
                THEN /\ pc' = "raised"
                     /\ UNCHANGED <<matches, remaining, short_queues>>
                ELSE /\ matches' = Append(matches, match)
                     /\ remaining' = remaining - matched_qty
                     /\ short_queues' =
                            [short_queues EXCEPT ![sym] =
                                IF left <= 0 THEN Tail(short_queue)
                                ELSE <<Lot(short_lot.transaction, left)>>
                                         \o Tail(short_queue)]
                     /\ pc' = pc
    /\ UNCHANGED <<transactions, buys_sells, pos, buy_queues, short_order,
                   buy_order, warnings, open_positions>>
    /\ UNCHANGED nonFifoVars

\* Lines 110-114: the BUY's while-loop is over; what is left becomes a lot.
PushBuy ==
    /\ pc = "cover"
    /\ LET sym == CurTx.symbol
           short_queue == QueueOf(short_queues, short_order, sym)
       IN /\ ~(remaining > 0 /\ short_queue # <<>>)
          /\ IF HasRemaining(remaining)
             THEN /\ buy_queues' =
                        [buy_queues EXCEPT ![sym] =
                            Append(QueueOf(buy_queues, buy_order, sym),
                                   Lot(buys_sells[pos], remaining))]
                  /\ buy_order' = Touch(buy_order, sym)
             ELSE UNCHANGED <<buy_queues, buy_order>>
    /\ pos' = pos + 1
    /\ pc' = "loop"
    /\ UNCHANGED <<transactions, buys_sells, remaining, short_queues,
                   short_order, matches, warnings, open_positions>>
    /\ UNCHANGED nonFifoVars

\* Lines 121-139: one iteration of the FIFO while-loop of a SELL.
MatchStep ==
    /\ pc = "match"
    /\ LET sym == CurTx.symbol
           queue == QueueOf(buy_queues, buy_order, sym)
       IN /\ remaining > 0
          /\ queue # <<>>
          /\ LET lot == Head(queue)
                 matched_qty == MatchedQty(remaining, lot.remaining_qty)
                 match == CreateMatch(sym, matched_qty, lot.transaction,
                                      buys_sells[pos],
                                      transactions[lot.transaction].quantity,
                                      CurTx.quantity)
                 left == lot.remaining_qty - matched_qty
             IN IF \/ DividesByZero(transactions[lot.transaction].quantity)
                   \/ DividesByZero(CurTx.quantity)
                THEN /\ pc' = "raised"
                     /\ UNCHANGED <<matches, remaining, buy_queues>>
                ELSE /\ matches' = Append(matches, match)
                     /\ remaining' = remaining - matched_qty
                     /\ buy_queues' =
                            [buy_queues EXCEPT ![sym] =
                                IF left <= 0 THEN Tail(queue)
                                ELSE <<Lot(lot.transaction, left)>> \o Tail(queue)]
                     /\ pc' = pc
    /\ UNCHANGED <<transactions, buys_sells, pos, short_queues, short_order,
                   buy_order, warnings, open_positions>>
    /\ UNCHANGED nonFifoVars

\* Lines 141-145: the SELL's while-loop is over; what is left becomes a short lot.
PushShort ==
    /\ pc = "match"
    /\ LET sym == CurTx.symbol
           queue == QueueOf(buy_queues, buy_order, sym)
       IN /\ ~(remaining > 0 /\ queue # <<>>)
          /\ IF HasRemaining(remaining)
             THEN /\ short_queues' =
                        [short_queues EXCEPT ![sym] =
                            Append(QueueOf(short_queues, short_order, sym),
                                   Lot(buys_sells[pos], remaining))]
                  /\ short_order' = Touch(short_order, sym)
             ELSE UNCHANGED <<short_queues, short_order>>
    /\ pos' = pos + 1
    /\ pc' = "loop"
    /\ UNCHANGED <<transactions, buys_sells, remaining, buy_queues, buy_order,
                   matches, warnings, open_positions>>
    /\ UNCHANGED nonFifoVars

OrphanMatchesOfWholeSell(symbol, queue) ==
    LET F[i \in 0..Len(queue)] ==
            IF i = 0 THEN <<>>
            ELSE IF queue[i].remaining_qty > 0
                 THEN Append(F[i - 1],
                             CreateOrphanMatch(symbol,
                                               transactions[queue[i].transaction].quantity,
                                               queue[i].transaction,
                                               transactions[queue[i].transaction].quantity))
                 ELSE F[i - 1]
    IN F[Len(queue)]

\* Orphan matches of one symbol's short queue, in queue order.
OrphanMatchesOf(symbol, queue) ==
    LET F[i \in 0..Len(queue)] ==
            IF i = 0 THEN <<>>
            ELSE IF queue[i].remaining_qty > 0
                 THEN Append(F[i - 1],
                             CreateOrphanMatch(symbol, queue[i].remaining_qty,
                                               queue[i].transaction,
                                               transactions[queue[i].transaction].quantity))
                 ELSE F[i - 1]
    IN F[Len(queue)]

OrphanWarningsOf(symbol, queue) ==
    LET F[i \in 0..Len(queue)] ==
            IF i = 0 THEN <<>>
            ELSE IF queue[i].remaining_qty > 0
                 THEN Append(F[i - 1], OrphanWarning(symbol, queue[i]))
                 ELSE F[i - 1]
    IN F[Len(queue)]

\* Lines 147-163: every short lot still open becomes an orphan match + warning.
Orphans ==
    /\ pc = "loop"
    /\ pos > Len(buys_sells)
    /\ LET M[k \in 0..Len(short_order)] ==
               IF k = 0 THEN <<>>
               ELSE M[k - 1] \o OrphanMatchesOf(short_order[k],
                                                short_queues[short_order[k]])
           W[k \in 0..Len(short_order)] ==
               IF k = 0 THEN <<>>
               ELSE W[k - 1] \o OrphanWarningsOf(short_order[k],
                                                 short_queues[short_order[k]])
       IN IF \E k \in DOMAIN short_order :
                 \E j \in DOMAIN short_queues[short_order[k]] :
                     LET lot == short_queues[short_order[k]][j]
                     IN /\ lot.remaining_qty > 0
                        /\ DividesByZero(transactions[lot.transaction].quantity)
          THEN /\ pc' = "raised"
               /\ UNCHANGED <<matches, warnings>>
          ELSE /\ matches' = matches \o M[Len(short_order)]
               /\ warnings' = warnings \o W[Len(short_order)]
               /\ pc' = "collect"
    /\ UNCHANGED <<transactions, buys_sells, pos, remaining, buy_queues,
                   short_queues, short_order, buy_order, open_positions>>
    /\ UNCHANGED nonFifoVars

\* [lot for lot in queue if lot.remaining_qty > 0]
PositiveLots(queue) ==
    LET F[i \in 0..Len(queue)] ==
            IF i = 0 THEN <<>>
            ELSE IF queue[i].remaining_qty > 0 THEN Append(F[i - 1], queue[i])
                 ELSE F[i - 1]
    IN F[Len(queue)]

\* Lines 165-171: open positions by symbol (absent symbol = <<>>), return.
Collect ==
    /\ pc = "collect"
    /\ open_positions' =
           [s \in Symbols |-> PositiveLots(QueueOf(buy_queues, buy_order, s))]
    /\ pc' = "done"
    /\ UNCHANGED <<transactions, buys_sells, pos, remaining, buy_queues,
                   short_queues, short_order, buy_order, matches, warnings>>
    /\ UNCHANGED nonFifoVars

\* The transaction a match or a lot was built from, in place of its
\* position in the list (no transaction: <<>>).
TxAt(t) == IF t = 0 THEN <<>> ELSE <<transactions[t]>>

\* [x for x in xs if x.symbol == symbol]
OfSymbol(xs, symbol) ==
    LET F[i \in 0..Len(xs)] ==
            IF i = 0 THEN <<>>
            ELSE IF xs[i].symbol = symbol THEN Append(F[i - 1], xs[i])
                 ELSE F[i - 1]
    IN F[Len(xs)]

\* What the FifoResult holds for one symbol: its matches, its warnings and
\* its open lots, each with the transactions they refer to.
ResultFor(symbol) ==
    [matches |->
         LET ms == OfSymbol(matches, symbol)
         IN [i \in DOMAIN ms |->
                [ms[i] EXCEPT !.buy_tx = TxAt(ms[i].buy_tx),
                              !.sell_tx = TxAt(ms[i].sell_tx)]],
     warnings |-> OfSymbol(warnings, symbol),
     open_positions |->
         [j \in DOMAIN open_positions[symbol] |->
             [transaction |-> TxAt(open_positions[symbol][j].transaction),
              remaining_qty |-> open_positions[symbol][j].remaining_qty]]]

\* process() has returned; it is called again with the records of one
\* symbol only, in the order they had in the list.
ProcessOnlySymbol ==
    /\ x_pc = "all"
    /\ pc = "done"
    /\ x_first' = <<ResultFor(x_symbol), transactions>>
    /\ transactions' = OfSymbol(transactions, x_symbol)
    /\ pc' = "start"
    /\ buys_sells' = <<>>
    /\ pos' = 0
    /\ remaining' = 0
    /\ buy_queues' = [s \in Symbols |-> <<>>]
    /\ short_queues' = [s \in Symbols |-> <<>>]
    /\ short_order' = <<>>
    /\ buy_order' = <<>>
    /\ matches' = <<>>
    /\ warnings' = <<>>
    /\ open_positions' = [s \in Symbols |-> <<>>]
    /\ x_pc' = "only"
    /\ UNCHANGED x_symbol
    /\ UNCHANGED <<dedupVars, rateVars, taxVars, divVars, settleVars,
                   fetchVars, writerVars, genVars>>

AgainIdle ==
    /\ x_pc = "idle"
    /\ x_symbol = ""
    /\ x_first = <<>>

FifoNext ==
    \/ Start
    \/ NextTx
    \/ CoverStep
    \/ PushBuy
    \/ MatchStep
    \/ PushShort
    \/ Orphans
    \/ Collect

----------------------------------------------------------------------------
(* _dedup_transactions                                                     *)

DTx(i, sym, td, act, p, q) ==
    [id |-> i, symbol |-> sym, trade_date |-> td, action |-> act,
     price |-> p, quantity |-> q]

SamePriceKey(tx) == <<tx.symbol, tx.trade_date, tx.action, tx.price>>

BlendedKey(tx) == <<tx.symbol, tx.trade_date, tx.action>>

ExactIdDedupKeepLast(txs) ==
    LET F[i \in 0..Len(txs)] ==
            IF i = 0 THEN <<>>
            ELSE IF \E j \in (i + 1)..Len(txs) : txs[j].id = txs[i].id
                 THEN F[i - 1]
                 ELSE Append(F[i - 1], txs[i])
    IN F[Len(txs)]

\* Pass 1 (lines 312-318): keep a record unless its id was seen before.
ExactIdDedup(txs) ==
    LET F[i \in 0..Len(txs)] ==
            IF i = 0 THEN <<>>
            ELSE IF \E j \in 1..(i - 1) : txs[j].id = txs[i].id
                 THEN F[i - 1]
                 ELSE Append(F[i - 1], txs[i])
    IN F[Len(txs)]

\* sum(q for _, q in ...) over a set of indices of txs.
RECURSIVE QtySum(_, _)
QtySum(txs, idx) ==
    IF idx = {} THEN 0
    ELSE LET i == CHOOSE i \in idx : TRUE
         IN txs[i].quantity + QtySum(txs, idx \ {i})

\* quantities.sort(key=quantity, reverse=True)[0]: the largest quantity; the
\* sort is stable, so among equal quantities the first index wins.
LargestIndex(txs, idx) ==
    CHOOSE i \in idx :
        \A j \in idx : \/ txs[j].quantity < txs[i].quantity
                       \/ (txs[j].quantity = txs[i].quantity /\ i <= j)

\* groups[key]: the indices of the BUY/SELL records that share tx's key.
GroupOf(txs, i, pass) ==
    {j \in DOMAIN txs :
        /\ txs[j].action \in {BUY, SELL}
        /\ IF pass = 2 THEN SamePriceKey(txs[j]) = SamePriceKey(txs[i])
                       ELSE BlendedKey(txs[j]) = BlendedKey(txs[i])}

RemoveIndicesAtLeast(txs, pass) ==
    {i \in DOMAIN txs :
        /\ txs[i].action \in {BUY, SELL}
        /\ LET indices == GroupOf(txs, i, pass)
           IN /\ Cardinality(indices) > 1
              /\ i = LargestIndex(txs, indices)
              /\ QtySum(txs, indices \ {i}) >= txs[i].quantity}

\* remove_indices / remove_blended (lines 331-340, 354-363): the largest
\* record of every group of more than one whose other members add up to it.
RemoveIndices(txs, pass) ==
    {i \in DOMAIN txs :
        /\ txs[i].action \in {BUY, SELL}
        /\ LET indices == GroupOf(txs, i, pass)
           IN /\ Cardinality(indices) > 1
              /\ i = LargestIndex(txs, indices)
              /\ QtySum(txs, indices \ {i}) = txs[i].quantity}

DropReversed(txs, remove) ==
    LET F[i \in 0..Len(txs)] ==
            IF i = 0 THEN <<>>
            ELSE IF i \in remove THEN F[i - 1] ELSE <<txs[i]>> \o F[i - 1]
    IN F[Len(txs)]

\* [tx for i, tx in enumerate(deduped) if i not in remove_indices]
Drop(txs, remove) ==
    LET F[i \in 0..Len(txs)] ==
            IF i = 0 THEN <<>>
            ELSE IF i \in remove THEN F[i - 1] ELSE Append(F[i - 1], txs[i])
    IN F[Len(txs)]

\* Lines 309-310: an empty list is returned as it is.
DedupEmpty ==
    /\ d_pc = "pass1"
    /\ dedup_arg = <<>>
    /\ results' = Append(results, dedup_arg)
    /\ d_pc' = "returned"
    /\ UNCHANGED <<dedup_arg, deduped, before_pass>>
    /\ UNCHANGED nonDedupVars

\* Lines 312-322: pass 1, exact-id dedup.
Pass1 ==
    /\ d_pc = "pass1"
    /\ dedup_arg # <<>>
    /\ before_pass' = dedup_arg
    /\ deduped' = ExactIdDedup(dedup_arg)
    /\ d_pc' = "pass2"
    /\ UNCHANGED <<dedup_arg, results>>
    /\ UNCHANGED nonDedupVars

\* Lines 324-344: pass 2, same-price aggregate dedup.
Pass2 ==
    /\ d_pc = "pass2"
    /\ before_pass' = deduped
    /\ deduped' = Drop(deduped, RemoveIndices(deduped, 2))
    /\ d_pc' = "pass3"
    /\ UNCHANGED <<dedup_arg, results>>
    /\ UNCHANGED nonDedupVars

\* Lines 346-367: pass 3, blended-price aggregate dedup.
Pass3 ==
    /\ d_pc = "pass3"
    /\ before_pass' = deduped
    /\ deduped' = Drop(deduped, RemoveIndices(deduped, 3))
    /\ d_pc' = "return"
    /\ UNCHANGED <<dedup_arg, results>>
    /\ UNCHANGED nonDedupVars

\* Line 369: return deduped.
DedupReturn ==
    /\ d_pc = "return"
    /\ results' = Append(results, deduped)
    /\ d_pc' = "returned"
    /\ UNCHANGED <<dedup_arg, deduped, before_pass>>
    /\ UNCHANGED nonDedupVars

\* The pipeline applied again, to what the first call returned.
DedupAgain ==
    /\ d_pc = "returned"
    /\ Len(results) = 1
    /\ dedup_arg' = results[1]
    /\ deduped' = <<>>
    /\ before_pass' = <<>>
    /\ d_pc' = "pass1"
    /\ UNCHANGED results
    /\ UNCHANGED nonDedupVars

DedupNext ==
    \/ DedupEmpty
    \/ Pass1
    \/ Pass2
    \/ Pass3
    \/ DedupReturn
    \/ DedupAgain

DedupIdle ==
    /\ d_pc = "idle"
    /\ dedup_arg = <<>>
    /\ deduped = <<>>
    /\ before_pass = <<>>
    /\ results = <<>>

DedupIds == {1, 2, 3}
DedupKeys == {<<"AAA", 1, BUY>>, <<"AAA", 1, DIVIDEND>>, <<"BBB", 2, SELL>>}
DedupPriceQty == {<<10, 1>>, <<11, 1>>, <<10, 2>>}

DedupTxDomain ==
    {DTx(i, k[1], k[2], k[3], pq[1], pq[2]) :
        i \in DedupIds, k \in DedupKeys, pq \in DedupPriceQty}

\* Scenario: fills of 16, 7 and 100 units and their 123-unit aggregate.
ScenarioAggregate ==
    <<DTx(1, "AAA", 1, BUY, 10, 16), DTx(2, "AAA", 1, BUY, 10, 7),
      DTx(3, "AAA", 1, BUY, 10, 100), DTx(4, "AAA", 1, BUY, 10, 123)>>

----------------------------------------------------------------------------
(* Calendar: dates are proleptic Gregorian ordinals (date.toordinal())     *)

IsLeap(y) == (y % 4 = 0 /\ y % 100 # 0) \/ y % 400 = 0

DaysBeforeYear(y) ==
    (y - 1) * 365 + ((y - 1) \div 4) - ((y - 1) \div 100) + ((y - 1) \div 400)

DaysInMonth(y, m) ==
    IF m = 2 THEN (IF IsLeap(y) THEN 29 ELSE 28)
    ELSE IF m \in {4, 6, 9, 11} THEN 30 ELSE 31

RECURSIVE DaysBeforeMonth(_, _)
DaysBeforeMonth(y, m) ==
    IF m = 1 THEN 0 ELSE DaysBeforeMonth(y, m - 1) + DaysInMonth(y, m - 1)

\* date(y, m, d)
Date(y, m, d) == DaysBeforeYear(y) + DaysBeforeMonth(y, m) + d

\* d.year
YearOf(d) ==
    CHOOSE y \in (d \div 366)..((d \div 365) + 1) :
        DaysBeforeYear(y) < d /\ d <= DaysBeforeYear(y + 1)

\* d.weekday(): Monday = 0 ... Sunday = 6
Weekday(d) == (d + 6) % 7

\* FIXED_HOLIDAYS (lines 26-36)
FIXED_HOLIDAYS ==
    {<<1, 1>>, <<1, 6>>, <<5, 1>>, <<5, 3>>, <<8, 15>>, <<11, 1>>,
     <<11, 11>>, <<12, 25>>, <<12, 26>>}

\* _easter_date (lines 41-54): the Anonymous Gregorian algorithm.
EasterDate(year) ==
    LET a == year % 19
        b == year \div 100
        c == year % 100
        d == b \div 4
        e == b % 4
        f == (b + 8) \div 25
        g == (b - f + 1) \div 3
        h == (19 * a + b - d - g + 15) % 30
        i == c \div 4
        k == c % 4
        l == (32 + 2 * e + 2 * i - h - k) % 7
        m == (a + 11 * h + 22 * l) \div 451
        month == (h + l - 7 * m + 114) \div 31
        day == ((h + l - 7 * m + 114) % 31) + 1
    IN Date(year, month, day)

\* _polish_holidays (lines 57-65)
PolishHolidays(year) ==
    {Date(year, md[1], md[2]) : md \in FIXED_HOLIDAYS}
    \cup {EasterDate(year), EasterDate(year) + 1,
          EasterDate(year) + 49, EasterDate(year) + 60}

\* is_polish_business_day (lines 68-72)
IsPolishBusinessDay(d) ==
    IF Weekday(d) >= 5 THEN FALSE
    ELSE d \notin PolishHolidays(YearOf(d))

RECURSIVE BackToBusinessDay(_)
\* while not is_polish_business_day(candidate): candidate -= 1 day
BackToBusinessDay(c) ==
    IF IsPolishBusinessDay(c) THEN c ELSE BackToBusinessDay(c - 1)

PreviousBusinessDayFromSameDay(d) == BackToBusinessDay(d)

\* previous_business_day for the dates of the months the date windows lie
\* in, computed once.
PreviousBusinessDayOf ==
    [d \in Date(2024, 11, 1)..Date(2025, 6, 30) |-> BackToBusinessDay(d - 1)]

\* previous_business_day (lines 75-80)
PreviousBusinessDay(d) ==
    IF d \in DOMAIN PreviousBusinessDayOf THEN PreviousBusinessDayOf[d]
    ELSE BackToBusinessDay(d - 1)

----------------------------------------------------------------------------
(* settlement_date_for_trade                                               *)

\* str.upper() on the venue codes in use.
UpperCountry(c) ==
    IF c = "us" THEN "US" ELSE IF c = "de" THEN "DE" ELSE c

AfterCutoff(d) == d > Date(2024, 5, 28)

\* `trade_date >= cutoff`, cutoff = date(2024, 5, 28) (lines 90, 92)
OnOrAfterCutoff(d) == d >= Date(2024, 5, 28)

\* Lines 89-98.
SettleStart ==
    /\ s_pc = "call"
    /\ LET us_ca_mx == UpperCountry(exchange_country) \in {"US", "CA", "MX"}
       IN offset' = IF us_ca_mx /\ OnOrAfterCutoff(settle_trade_date)
                    THEN 1 ELSE 2
    /\ settle' = settle_trade_date
    /\ days_added' = 0
    /\ s_pc' = "loop"
    /\ UNCHANGED <<settle_trade_date, exchange_country>>
    /\ UNCHANGED nonSettleVars

\* Lines 99-103: one iteration of the while-loop.
SettleStep ==
    /\ s_pc = "loop"
    /\ days_added < offset
    /\ settle' = settle + 1
    /\ days_added' = IF Weekday(settle + 1) < 5 THEN days_added + 1
                      ELSE days_added
    /\ UNCHANGED <<s_pc, settle_trade_date, exchange_country, offset>>
    /\ UNCHANGED nonSettleVars

\* Line 105: return settle.
SettleReturn ==
    /\ s_pc = "loop"
    /\ ~(days_added < offset)
    /\ s_pc' = "returned"
    /\ UNCHANGED <<settle_trade_date, exchange_country, offset, settle,
                   days_added>>
    /\ UNCHANGED nonSettleVars

SettleNext ==
    \/ SettleStart
    \/ SettleStep
    \/ SettleReturn

SettleIdle ==
    /\ s_pc = "idle"
    /\ settle_trade_date = 0
    /\ exchange_country = ""
    /\ offset = 0
    /\ settle = 0
    /\ days_added = 0

ExchangeCountries == {"US", "us", "CA", "MX", "DE", "de", ""}

\* The weeks around the cutover of 2024-05-28, and one window in 2023.
SettleTradeDates ==
    (Date(2024, 5, 20)..(Date(2024, 5, 20) + SettleWindowDays))
    \cup (Date(2023, 12, 27)..Date(2023, 12, 31))

----------------------------------------------------------------------------
(* NbpClient.get_rate                                                      *)

\* str.upper() on the currency codes in use.
Upper(c) == IF c = "usd" THEN "USD" ELSE IF c = "pln" THEN "PLN" ELSE c

\* The mid rate the remote table publishes for a day (in hundredths).
ProviderMid(cur, d) == 380 + (d % 7)

\* _get_cached_rate (lines 131-139): the row's rate, or 0 for None.
CachedRate(cur, d) ==
    IF \E row \in nbp_rates : row.currency = Upper(cur) /\ row.rate_date = d
    THEN (CHOOSE row \in nbp_rates :
              row.currency = Upper(cur) /\ row.rate_date = d).mid_rate
    ELSE 0

CacheRateInsertOnly(table, cur, d, mid) ==
    table \cup {[currency |-> Upper(cur), rate_date |-> d, mid_rate |-> mid]}

\* _cache_rate (lines 141-146): INSERT OR REPLACE on the key (currency, date).
CacheRate(table, cur, d, mid) ==
    {row \in table : ~(row.currency = Upper(cur) /\ row.rate_date = d)}
    \cup {[currency |-> Upper(cur), rate_date |-> d, mid_rate |-> mid]}

MaxAttempts == 10

LoopContinuesOnceMore(a) == a <= MaxAttempts

\* `while attempts < 10` (line 230)
LoopContinues(a) == a < MaxAttempts

\* One call of _get_cached_rate: the key asked for and whether a row came back.
Lookup(cur, d, found) == [currency |-> Upper(cur), rate_date |-> d, hit |-> found]

\* Lines 216-218: the reporting currency needs no lookup.
GetRatePln ==
    /\ r_pc = "call"
    /\ Upper(currency) = "PLN"
    /\ rate_result' = [rate |-> RateScale, date |-> for_date]
    /\ r_pc' = "returned"
    /\ UNCHANGED <<currency, for_date, target, candidate, attempts, nbp_rates,
                   fetched, cache_lookups>>
    /\ UNCHANGED nonRateVars

\* Lines 220-225: the target day is in the cache.
CacheHit ==
    /\ r_pc = "call"
    /\ Upper(currency) # "PLN"
    /\ LET t == PreviousBusinessDay(for_date)
       IN /\ CachedRate(currency, t) # 0
          /\ target' = t
          /\ rate_result' = [rate |-> CachedRate(currency, t), date |-> t]
          /\ cache_lookups' = Append(cache_lookups, Lookup(currency, t, TRUE))
    /\ r_pc' = "returned"
    /\ UNCHANGED <<currency, for_date, candidate, attempts, nbp_rates, fetched>>
    /\ UNCHANGED nonRateVars

\* Lines 220-229: the target day is not in the cache; the search starts.
CacheMiss ==
    /\ r_pc = "call"
    /\ Upper(currency) # "PLN"
    /\ LET t == PreviousBusinessDay(for_date)
       IN /\ CachedRate(currency, t) = 0
          /\ target' = t
          /\ candidate' = t
          /\ cache_lookups' = Append(cache_lookups, Lookup(currency, t, FALSE))
    /\ attempts' = 0
    /\ r_pc' = "fetch"
    /\ UNCHANGED <<currency, for_date, nbp_rates, fetched, rate_result>>
    /\ UNCHANGED nonRateVars

\* Lines 230-233 with _fetch_rate_from_api (148-159): the API has the day's
\* rate; it is cached and returned.
FetchHit ==
    /\ r_pc = "fetch"
    /\ LoopContinues(attempts)
    /\ fetched' = Append(fetched, candidate)
    /\ nbp_rates' = CacheRate(nbp_rates, currency, candidate,
                              ProviderMid(Upper(currency), candidate))
    /\ rate_result' = [rate |-> ProviderMid(Upper(currency), candidate),
                       date |-> candidate]
    /\ r_pc' = "returned"
    /\ UNCHANGED <<currency, for_date, target, candidate, attempts,
                   cache_lookups>>
    /\ UNCHANGED nonRateVars

\* Lines 230-235 with _fetch_rate_from_api (153-154, 160-162): a 404 or an
\* HTTP error; the search steps back one business day.
FetchMiss ==
    /\ r_pc = "fetch"
    /\ LoopContinues(attempts)
    /\ fetched' = Append(fetched, candidate)
    /\ candidate' = PreviousBusinessDay(candidate)
    /\ attempts' = attempts + 1
    /\ UNCHANGED <<r_pc, currency, for_date, target, nbp_rates, cache_lookups,
                   rate_result>>
    /\ UNCHANGED nonRateVars

\* Lines 237-240: ten fetches gave nothing.
RaiseValueError ==
    /\ r_pc = "fetch"
    /\ ~LoopContinues(attempts)
    /\ r_pc' = "raised"
    /\ UNCHANGED <<currency, for_date, target, candidate, attempts, nbp_rates,
                   fetched, cache_lookups, rate_result>>
    /\ UNCHANGED nonRateVars

RateNext ==
    \/ GetRatePln
    \/ CacheHit
    \/ CacheMiss
    \/ FetchHit
    \/ FetchMiss
    \/ RaiseValueError

RateIdle ==
    /\ r_pc = "idle"
    /\ currency = "PLN"
    /\ for_date = 0
    /\ target = 0
    /\ candidate = 0
    /\ attempts = 0
    /\ nbp_rates = {}
    /\ fetched = <<>>
    /\ cache_lookups = <<>>
    /\ rate_result = [rate |-> 0, date |-> 0]

----------------------------------------------------------------------------
(* NbpClient.fetch_table_for_year                                          *)

\* The days the provider has a Table A for, computed once for the years of
\* the runs: the Polish business days.
ProviderTableDays ==
    {d \in Date(2024, 1, 1)..Date(2026, 12, 31) : IsPolishBusinessDay(d)}

\* The currency codes of a table, as the provider spells them.
TableCodes == {"USD", "EUR"}

\* The tables the provider answers a window with (resp.json()).
TablesOf(from, to) == {d \in ProviderTableDays : from <= d /\ d <= to}

ChunkEndNinetyOneDays(start, last) == Min(start + 90, last)

\* chunk_end = min(chunk_start + timedelta(days=89), year_end) (line 178)
ChunkEnd(start, last) == Min(start + 89, last)

\* Lines 189-197: INSERT OR REPLACE of every rate of every table.
CacheTables(table, days) ==
    {row \in table : ~(row.currency \in TableCodes /\ row.rate_date \in days)}
    \cup {[currency |-> c, rate_date |-> d, mid_rate |-> ProviderMid(c, d)] :
             c \in TableCodes, d \in days}

Request(from, to, how) == [chunk_start |-> from, chunk_end |-> to,
                           outcome |-> how]

\* Lines 169-176: a future year returns at once.
FetchEnter ==
    /\ f_pc = "call"
    /\ year_end' = Min(Date(fetch_year, 12, 31), today)
    /\ chunk_start' = Date(fetch_year, 1, 1)
    /\ f_pc' = IF Date(fetch_year, 1, 1) > today THEN "returned" ELSE "loop"
    /\ UNCHANGED <<fetch_year, today, total_tables, requests, nbp_rates>>
    /\ UNCHANGED nonFetchVars

\* Lines 177-198, 203: a window answered with tables.
FetchChunkOk ==
    /\ f_pc = "loop"
    /\ chunk_start <= year_end
    /\ LET chunk_end == ChunkEnd(chunk_start, year_end)
           tables == TablesOf(chunk_start, chunk_end)
       IN /\ requests' = Append(requests,
                                Request(chunk_start, chunk_end, "ok"))
          /\ nbp_rates' = CacheTables(nbp_rates, tables)
          /\ total_tables' = total_tables + Cardinality(tables)
          /\ chunk_start' = chunk_end + 1
    /\ UNCHANGED <<f_pc, fetch_year, today, year_end>>
    /\ UNCHANGED nonFetchVars

\* Lines 177-186: a window answered 404; the next window follows.
FetchChunkNotFound ==
    /\ f_pc = "loop"
    /\ chunk_start <= year_end
    /\ LET chunk_end == ChunkEnd(chunk_start, year_end)
       IN /\ requests' = Append(requests,
                                Request(chunk_start, chunk_end, "404"))
          /\ chunk_start' = chunk_end + 1
    /\ UNCHANGED <<f_pc, fetch_year, today, year_end, total_tables, nbp_rates>>
    /\ UNCHANGED nonFetchVars

\* Lines 177-187, 200-203: httpx.HTTPError (transport failure or an error
\* status raised by raise_for_status) is logged; the next window follows.
FetchChunkError ==
    /\ f_pc = "loop"
    /\ chunk_start <= year_end
    /\ LET chunk_end == ChunkEnd(chunk_start, year_end)
       IN /\ requests' = Append(requests,
                                Request(chunk_start, chunk_end, "error"))
          /\ chunk_start' = chunk_end + 1
    /\ UNCHANGED <<f_pc, fetch_year, today, year_end, total_tables, nbp_rates>>
    /\ UNCHANGED nonFetchVars

\* Lines 177, 205: the loop condition fails.
FetchReturn ==
    /\ f_pc = "loop"
    /\ ~(chunk_start <= year_end)
    /\ f_pc' = "returned"
    /\ UNCHANGED <<fetch_year, today, chunk_start, year_end, total_tables,
                   requests, nbp_rates>>
    /\ UNCHANGED nonFetchVars

FetchNext ==
    \/ FetchEnter
    \/ FetchReturn
    \/ FetchChunkNotFound
    \/ FetchChunkError
    \/ FetchChunkOk

FetchIdle ==
    /\ f_pc = "idle"
    /\ fetch_year = 0
    /\ today = 0
    /\ chunk_start = 0
    /\ year_end = 0
    /\ total_tables = 0
    /\ requests = <<>>

FetchYears == {2024, 2025, 2026}

\* The days fetch_table_for_year is run on: New Year's Day, the last day of
\* the first window, the day after it, New Year's Eve, a day of 2026.
Todays ==
    {Date(2025, 1, 1), Date(2025, 3, 31), Date(2025, 4, 1),
     Date(2025, 12, 31), Date(2026, 6, 15)}

Currencies == {"USD", "usd", "PLN", "pln"}

\* Two windows of dates: Christmas / New Year / Epiphany 2024-25 and
\* Easter / 1 May / 3 May 2025.
ForDates ==
    (Date(2024, 12, 16)..(Date(2024, 12, 16) + WindowDays))
    \cup (Date(2025, 4, 14)..(Date(2025, 4, 14) + WindowDays))

\* The cache at the call: empty, or one row for USD near the date asked for.
InitialCaches(d) ==
    {{}} \cup {{[currency |-> "USD", rate_date |-> c, mid_rate |-> 400]} :
                  c \in (d - 6)..d}

----------------------------------------------------------------------------
(* Concurrent population of the cache table                                *)
(* Every write is `with sqlite3.connect(db) as conn: conn.execute(INSERT   *)
(* OR REPLACE ...)`: the first statement opens the transaction and takes   *)
(* the database's write lock, leaving the with-block commits. sqlite lets  *)
(* one connection write at a time; the others wait for the lock.           *)

Row(cur, d, mid) == [currency |-> cur, rate_date |-> d, mid_rate |-> mid]

\* The remote call of a writer answers with data (lines 151-157 / 182-188).
WriterFetchOk(w) ==
    /\ w_pc[w] = "fetch"
    /\ w_pc' = [w_pc EXCEPT ![w] = "store"]
    /\ UNCHANGED <<writers, w_pos, db_lock, txn, nbp_rates>>
    /\ UNCHANGED nonWriterVars

\* The remote call answers 404 or fails (lines 153-154, 160-162 / 183-186,
\* 200-201): nothing is stored.
WriterFetchNone(w) ==
    /\ w_pc[w] = "fetch"
    /\ w_pc' = [w_pc EXCEPT ![w] = "none"]
    /\ UNCHANGED <<writers, w_pos, db_lock, txn, nbp_rates>>
    /\ UNCHANGED nonWriterVars

\* conn.execute("INSERT OR REPLACE ..."): lines 143-146 / 193-196. The first
\* statement of a connection waits for the write lock and takes it.
WriterExecute(w) ==
    /\ w_pc[w] = "store"
    /\ w_pos[w] < Len(writers[w].rows)
    /\ db_lock \in {0, w}
    /\ LET row == writers[w].rows[w_pos[w] + 1]
           seen == IF db_lock = w THEN txn ELSE nbp_rates
       IN txn' = CacheRate(seen, row.currency, row.rate_date, row.mid_rate)
    /\ db_lock' = w
    /\ w_pos' = [w_pos EXCEPT ![w] = w_pos[w] + 1]
    /\ UNCHANGED <<writers, w_pc, nbp_rates>>
    /\ UNCHANGED nonWriterVars

\* Leaving the with-block (lines 142, 189): commit, the lock is released.
WriterCommit(w) ==
    /\ w_pc[w] = "store"
    /\ w_pos[w] = Len(writers[w].rows)
    /\ db_lock = w
    /\ nbp_rates' = txn
    /\ txn' = {}
    /\ db_lock' = 0
    /\ w_pc' = [w_pc EXCEPT ![w] = "done"]
    /\ UNCHANGED <<writers, w_pos>>
    /\ UNCHANGED nonWriterVars

WriterIds == {1, 2, 3}

WriterNext ==
    \/ \E w \in WriterIds : WriterFetchOk(w)
    \/ \E w \in WriterIds : WriterFetchNone(w)
    \/ \E w \in WriterIds : WriterExecute(w)
    \/ \E w \in WriterIds : WriterCommit(w)

WriterIdle ==
    /\ writers = <<>>
    /\ w_pc = <<>>
    /\ w_pos = <<>>
    /\ db_lock = 0
    /\ txn = {}

WriteDates == {Date(2025, 1, 2), Date(2025, 1, 3)}

\* What the provider may answer for a day: its rate, or a revised one.
AnsweredMids(cur, d) == {ProviderMid(cur, d), ProviderMid(cur, d) + 1}

\* _fetch_rate_from_api(currency, rate_date): one row, the currency as the
\* caller spelt it.
SingleWriters ==
    UNION {{[kind |-> "single", rows |-> <<Row(c, d, m)>>] :
               c \in {"USD", "usd"}, m \in AnsweredMids("USD", d)} :
           d \in WriteDates}

\* One window of fetch_table_for_year: the rows of its tables, in order.
BulkWriters ==
    {[kind |-> "bulk",
      rows |-> <<Row("USD", Date(2025, 1, 2), m),
                 Row("EUR", Date(2025, 1, 2), ProviderMid("EUR", Date(2025, 1, 2))),
                 Row("USD", Date(2025, 1, 3), ProviderMid("USD", Date(2025, 1, 3)))>>] :
        m \in AnsweredMids("USD", Date(2025, 1, 2))}

----------------------------------------------------------------------------
(* TaxReportGenerator.generate, step 4: capital gains summary              *)

\* POLISH_TAX_RATE = Decimal("0.19"), in hundredths.
POLISH_TAX_RATE == 19

\* A product of an amount in 0.01 and the rate in 0.01 is in 0.0001.
TenThousandths == RateScale * RateScale

RoundToFullPlnHalfDown(value) ==
    (value + (TenThousandths \div 2) - 1) \div TenThousandths

\* _round_to_full_pln (lines 72-74): floor(value + 0.5), value in 0.0001.
RoundToFullPln(value) == (value + (TenThousandths \div 2)) \div TenThousandths

RECURSIVE SumField(_, _)
\* sum((m.<field> for m in year_matches), Decimal("0"))
SumField(ms, field) ==
    IF ms = <<>> THEN 0 ELSE Head(ms)[field] + SumField(Tail(ms), field)

\* The closing transaction's year of every match is the sell's.
InYearBySellDate(m, year) == YearOf(m.sell_date) = year

\* The condition of lines 140-141: a short match counts in the year of its
\* buy_date, any other match in the year of its sell_date.
InYear(m, year) ==
    \/ (m.is_short /\ YearOf(m.buy_date) = year)
    \/ (~m.is_short /\ YearOf(m.sell_date) = year)

\* [m for m in fifo_result.matches if ...] (lines 138-142)
FilterMatches(ms, year) ==
    LET F[i \in 0..Len(ms)] ==
            IF i = 0 THEN <<>>
            ELSE IF InYear(ms[i], year) THEN Append(F[i - 1], ms[i])
                 ELSE F[i - 1]
    IN F[Len(ms)]

\* Lines 132-142: process() has returned; its warnings are taken over and
\* its matches are filtered to the tax year.
FilterYear ==
    /\ t_pc = "filter"
    /\ pc = "done"
    /\ year_matches' = FilterMatches(matches, tax_year)
    /\ tax_warnings' = tax_warnings \o warnings
    /\ t_pc' = "sum"
    /\ UNCHANGED <<tax_year, prior_year_losses, total_revenue, total_costs,
                   profit, tax_due>>
    /\ UNCHANGED nonTaxVars

\* Lines 145-147.
SumMatches ==
    /\ t_pc = "sum"
    /\ total_revenue' = SumField(year_matches, "sell_revenue_pln")
    /\ total_costs' = SumField(year_matches, "buy_cost_pln")
    /\ profit' = SumField(year_matches, "sell_revenue_pln")
                     - SumField(year_matches, "buy_cost_pln")
    /\ t_pc' = "loss"
    /\ UNCHANGED <<tax_year, year_matches, prior_year_losses, tax_due, tax_warnings>>
    /\ UNCHANGED nonTaxVars

\* Optional[Decimal] = None
None == <<>>

\* `prior_year_losses and prior_year_losses > 0 and profit > 0`
LossApplies ==
    /\ prior_year_losses # None
    /\ prior_year_losses[1] # 0
    /\ prior_year_losses[1] > 0
    /\ profit > 0

ActualDeductionUncapped(losses, p) == RoundHalfUp(losses, 2)

\* Lines 151-154: max_deduction = (losses * 0.5).quantize(0.01, ROUND_HALF_UP),
\* actual_deduction = min(max_deduction, profit).
ActualDeduction(losses, p) ==
    LET max_deduction == RoundHalfUp(losses, 2)
    IN Min(max_deduction, p)

\* Lines 150-159: deduct up to half of the prior losses, at most the profit.
DeductLoss ==
    /\ t_pc = "loss"
    /\ LossApplies
    /\ LET actual_deduction == ActualDeduction(prior_year_losses[1], profit)
       IN /\ profit' = profit - actual_deduction
          /\ tax_warnings' =
                 Append(tax_warnings,
                        [kind |-> "Odliczono strate", deduction |-> actual_deduction,
                         losses |-> prior_year_losses[1]])
    /\ t_pc' = "tax"
    /\ UNCHANGED <<tax_year, year_matches, prior_year_losses, total_revenue,
                   total_costs, tax_due>>
    /\ UNCHANGED nonTaxVars

\* Line 150, condition false.
NoDeduction ==
    /\ t_pc = "loss"
    /\ ~LossApplies
    /\ t_pc' = "tax"
    /\ UNCHANGED <<tax_year, year_matches, prior_year_losses, total_revenue,
                   total_costs, profit, tax_due, tax_warnings>>
    /\ UNCHANGED nonTaxVars

\* Lines 161-164.
ComputeTaxDue ==
    /\ t_pc = "tax"
    /\ tax_due' = Max(0, RoundToFullPln(profit * POLISH_TAX_RATE))
    /\ t_pc' = "done"
    /\ UNCHANGED <<tax_year, year_matches, prior_year_losses, total_revenue,
                   total_costs, profit, tax_warnings>>
    /\ UNCHANGED nonTaxVars

TaxNext ==
    \/ SumMatches
    \/ DeductLoss
    \/ NoDeduction
    \/ ComputeTaxDue

TaxIdle ==
    /\ t_pc = "idle"
    /\ tax_year = 0
    /\ year_matches = <<>>
    /\ prior_year_losses = None
    /\ total_revenue = 0
    /\ total_costs = 0
    /\ profit = 0
    /\ tax_due = 0
    /\ tax_warnings = <<>>

\* Revenue / cost pairs of the year's matches, in 0.01: among them the
\* simple-FIFO scenario (6000 / 4000) and 650.00, whose 19% is 123.50.
TaxRevenues == {0, 2500, 65000, 600000}
TaxCosts == {0, 37, 400000}
PriorLosses == {None} \cup {<<v>> : v \in {-5, 0, 3, 10000, 999999}}
TaxYears == {2023, 2024, 2025}

TaxMatchDomain ==
    {[sell_revenue_pln |-> r, buy_cost_pln |-> c] :
        r \in TaxRevenues, c \in TaxCosts}

----------------------------------------------------------------------------
(* DividendCalculator                                                      *)
(* A trade_date is a datetime counted in half days (2 * day + 0 or 1);     *)
(* amounts are in 0.01 (quantity carries the amount, price is a factor).   *)

DivTx(sym, td, act, q, p, r) ==
    [symbol |-> sym, trade_date |-> td, action |-> act, quantity |-> q,
     price |-> p, nbp_rate |-> r]

\* datetime.date()
DateOf(dt) == dt \div 2

Abs(x) == IF x < 0 THEN -x ELSE x

\* [t for t in transactions if t.action == act], as positions
FilterAction(txs, act) ==
    LET F[i \in 0..Len(txs)] ==
            IF i = 0 THEN <<>>
            ELSE IF txs[i].action = act THEN Append(F[i - 1], i) ELSE F[i - 1]
    IN F[Len(txs)]

\* candidates = [w for w in wht_entries if w.symbol == dividend.symbol]
WhtCandidates(txs, d, whts) ==
    LET F[i \in 0..Len(whts)] ==
            IF i = 0 THEN <<>>
            ELSE IF txs[whts[i]].symbol = txs[d].symbol
                 THEN Append(F[i - 1], whts[i]) ELSE F[i - 1]
    IN F[Len(whts)]

\* abs((w.trade_date.date() - div_date).days)
DayDistance(txs, w, d) ==
    Abs(DateOf(txs[w].trade_date) - DateOf(txs[d].trade_date))

WithinFourDays(dist) == dist < 5

\* `<= 5` (line 125)
WithinFiveDays(dist) == dist <= 5

\* _find_matching_wht (lines 99-133): the position of the WHT record chosen
\* (0 for None) and whether the "No matching WHT" line was logged.
FindMatchingWht(txs, d, whts) ==
    LET candidates == WhtCandidates(txs, d, whts)
        exact == {k \in DOMAIN candidates :
                     DateOf(txs[candidates[k]].trade_date) = DateOf(txs[d].trade_date)}
        \* candidates.sort(key=distance)[0]: the sort is stable
        best == CHOOSE k \in DOMAIN candidates :
                    \A j \in DOMAIN candidates :
                        \/ DayDistance(txs, candidates[k], d)
                               < DayDistance(txs, candidates[j], d)
                        \/ /\ DayDistance(txs, candidates[k], d)
                                  = DayDistance(txs, candidates[j], d)
                           /\ k <= j
    IN IF candidates = <<>> THEN [wht |-> 0, logged |-> FALSE]
       ELSE IF exact # {}
            THEN [wht |-> candidates[CHOOSE k \in exact : \A j \in exact : k <= j],
                  logged |-> FALSE]
       ELSE IF WithinFiveDays(DayDistance(txs, candidates[best], d))
            THEN [wht |-> candidates[best], logged |-> FALSE]
       ELSE [wht |-> 0, logged |-> TRUE]

ToPayUnfloored(polish_tax, wht_pln) == polish_tax - wht_pln

\* to_pay = max(Decimal("0"), polish_tax - wht_pln) (line 75)
ToPay(polish_tax, wht_pln) == Max(0, polish_tax - wht_pln)

\* Lines 56-95: the DividendResult of dividend d paired with w (0 = None).
DividendResultOf(txs, d, w) ==
    LET div == txs[d]
        div_rate == RateOr1(div.nbp_rate)
        gross_pln == RoundHalfUp(div.quantity * div.price * div_rate, RateScale)
        wht_rate == IF w # 0 THEN RateOr1(txs[w].nbp_rate) ELSE RateScale
        wht_amount == IF w # 0 THEN Abs(txs[w].quantity * txs[w].price) ELSE 0
        wht_pln == IF w # 0 THEN RoundHalfUp(wht_amount * wht_rate, RateScale)
                   ELSE 0
        polish_tax == RoundHalfUp(gross_pln * POLISH_TAX_RATE, RateScale)
    IN [symbol |-> div.symbol, pay_date |-> DateOf(div.trade_date),
        gross_amount |-> div.quantity * div.price,
        gross_amount_pln |-> gross_pln, nbp_rate |-> div_rate,
        wht_amount |-> wht_amount, wht_amount_pln |-> wht_pln,
        wht_nbp_rate |-> wht_rate, polish_tax_due |-> polish_tax,
        tax_to_pay_poland |-> ToPay(polish_tax, wht_pln),
        div_tx |-> d, wht_tx |-> w]

\* Lines 47-50.
DivStart ==
    /\ v_pc = "call"
    /\ dividends' = FilterAction(div_transactions, DIVIDEND)
    /\ wht_entries' = FilterAction(div_transactions, TAX_WHT)
    /\ div_pos' = 1
    /\ v_pc' = "loop"
    /\ UNCHANGED <<div_transactions, div_results, div_log, dividend_summary>>
    /\ UNCHANGED nonDivVars

\* Lines 52-95: one iteration of the loop over the dividends.
DivStep ==
    /\ v_pc = "loop"
    /\ div_pos <= Len(dividends)
    /\ LET d == dividends[div_pos]
           found == FindMatchingWht(div_transactions, d, wht_entries)
       IN /\ div_results' =
                 Append(div_results,
                        DividendResultOf(div_transactions, d, found.wht))
          /\ div_log' =
                 IF found.logged
                 THEN Append(div_log,
                             [kind |-> "No matching WHT",
                              symbol |-> div_transactions[d].symbol,
                              date |-> DateOf(div_transactions[d].trade_date)])
                 ELSE div_log
    /\ div_pos' = div_pos + 1
    /\ UNCHANGED <<v_pc, div_transactions, dividends, wht_entries,
                   dividend_summary>>
    /\ UNCHANGED nonDivVars

\* Line 97 and lines 176-182 of generate(): the results are returned and
\* summed into the DividendSummary; `warnings` is not touched.
DivSummary ==
    /\ v_pc = "loop"
    /\ div_pos > Len(dividends)
    /\ dividend_summary' =
           [total_gross_pln |-> SumField(div_results, "gross_amount_pln"),
            total_wht_pln |-> SumField(div_results, "wht_amount_pln"),
            total_polish_tax_due |-> SumField(div_results, "polish_tax_due"),
            total_to_pay_pln |-> SumField(div_results, "tax_to_pay_poland"),
            items |-> div_results]
    /\ v_pc' = "done"
    /\ UNCHANGED <<div_transactions, dividends, wht_entries, div_pos,
                   div_results, div_log>>
    /\ UNCHANGED nonDivVars

DivNext ==
    \/ DivStart
    \/ DivStep
    \/ DivSummary

NoSummary ==
    [total_gross_pln |-> 0, total_wht_pln |-> 0, total_polish_tax_due |-> 0,
     total_to_pay_pln |-> 0, items |-> <<>>]

DivInitRest ==
    /\ dividends = <<>>
    /\ wht_entries = <<>>
    /\ div_pos = 0
    /\ div_results = <<>>
    /\ div_log = <<>>
    /\ dividend_summary = NoSummary

DivIdle ==
    /\ v_pc = "idle"
    /\ div_transactions = <<>>
    /\ DivInitRest

\* Dividends of 100.00 at rate 4.00 and of 6.50 with no rate (19% = 1.235);
\* withholdings of 15.00 and 30.00 at rate 3.80, dated 6, 5, 2, 0 and 2 days
\* from the dividends' day (day 10); one withholding of another symbol.
WhtDays == {4, 5, 8, 10, 12}
WhtAmounts == {1500, 3000}

DivTxDomain ==
    {DivTx("AAA", 2 * 10 + 1, DIVIDEND, 10000, 1, 400),
     DivTx("AAA", 2 * 10 + 1, DIVIDEND, 650, 1, 0),
     DivTx("BBB", 2 * 10, TAX_WHT, 1500, 1, 380)}
    \cup {DivTx("AAA", 2 * day, TAX_WHT, q, 1, 380) :
              day \in WhtDays, q \in WhtAmounts}

----------------------------------------------------------------------------
(* TaxReportGenerator.generate and _enrich_nbp_rates                       *)
(* Trade timestamps of the records given to generate() are at midnight and *)
(* are held as date ordinals; the calculator counts timestamps in half     *)
(* days, so a record handed to it carries 2 * trade_date.                  *)

\* Optional[Decimal] = None of amount_pln and commission_pln.
NoAmount == -1

GenTx(sym, td, act, q, p, c, cur, ccur) ==
    [symbol |-> sym, trade_date |-> td, settlement_date |-> td + 2,
     action |-> act, quantity |-> q, price |-> p, commission |-> c,
     currency |-> cur, commission_currency |-> ccur,
     nbp_rate |-> 0, nbp_rate_date |-> 0,
     amount_pln |-> NoAmount, commission_pln |-> NoAmount]

\* What NbpClient.get_rate returns when it returns: the provider's rate of
\* the business day before for_date.
GetRate(cur, d) ==
    [rate |-> ProviderMid(Upper(cur), PreviousBusinessDay(d)),
     date |-> PreviousBusinessDay(d)]

\* [t for t in transactions if t.action in acts]
FilterRecords(txs, acts) ==
    LET F[i \in 0..Len(txs)] ==
            IF i = 0 THEN <<>>
            ELSE IF txs[i].action \in acts THEN Append(F[i - 1], txs[i])
                 ELSE F[i - 1]
    IN F[Len(txs)]

\* ... and t.trade_date.year == tax_year (lines 125-129)
FilterRecordsOfYear(txs, acts, year) ==
    LET F[i \in 0..Len(txs)] ==
            IF i = 0 THEN <<>>
            ELSE IF txs[i].action \in acts /\ YearOf(txs[i].trade_date) = year
                 THEN Append(F[i - 1], txs[i])
                 ELSE F[i - 1]
    IN F[Len(txs)]

\* The records as the calculator reads them: timestamps in half days.
AsDateTimes(txs) ==
    [i \in DOMAIN txs |-> [txs[i] EXCEPT !.trade_date = 2 * txs[i].trade_date]]

\* Lines 113, 239: warnings = [], years = {t.trade_date.year ...}.
GenEnter ==
    /\ g_pc = "call"
    /\ prefetch_years' = {YearOf(gen_transactions[i].trade_date) :
                              i \in DOMAIN gen_transactions}
    /\ g_pc' = "prefetch"
    /\ UNCHANGED <<gen_transactions, g_pos, pit_zg, open_pos, portfolio, report>>
    /\ UNCHANGED <<fifoVars, taxVars, divVars>>
    /\ UNCHANGED nonGenVars

\* Lines 240-242: fetch_table_for_year(year) returns.
PrefetchOk ==
    /\ g_pc = "prefetch"
    /\ \E year \in prefetch_years : prefetch_years' = prefetch_years \ {year}
    /\ UNCHANGED <<g_pc, gen_transactions, g_pos, pit_zg, open_pos, portfolio,
                   report>>
    /\ UNCHANGED <<fifoVars, taxVars, divVars>>
    /\ UNCHANGED nonGenVars

\* Lines 240-244: fetch_table_for_year(year) raises; a warning is appended.
PrefetchRaises ==
    /\ g_pc = "prefetch"
    /\ \E year \in prefetch_years :
          /\ prefetch_years' = prefetch_years \ {year}
          /\ tax_warnings' =
                 Append(tax_warnings,
                        [kind |-> "Nie udalo sie pobrac kursow NBP",
                         year |-> year])
    /\ UNCHANGED <<g_pc, gen_transactions, g_pos, pit_zg, open_pos, portfolio,
                   report>>
    /\ UNCHANGED <<fifoVars, taxStateVars, divVars>>
    /\ UNCHANGED nonGenVars

\* Line 246: the for-loop over the transactions starts.
PrefetchDone ==
    /\ g_pc = "prefetch"
    /\ prefetch_years = {}
    /\ g_pos' = 1
    /\ g_pc' = "enrich"
    /\ UNCHANGED <<gen_transactions, prefetch_years, pit_zg, open_pos,
                   portfolio, report>>
    /\ UNCHANGED <<fifoVars, taxVars, divVars>>
    /\ UNCHANGED nonGenVars

\* Lines 247-254: a PLN record converts at rate 1, nothing is looked up.
EnrichPln ==
    /\ g_pc = "enrich"
    /\ g_pos <= Len(gen_transactions)
    /\ LET tx == gen_transactions[g_pos]
       IN /\ Upper(tx.currency) = "PLN"
          /\ gen_transactions' =
                 [gen_transactions EXCEPT ![g_pos] =
                     [tx EXCEPT !.nbp_rate = RateScale,
                                !.nbp_rate_date = tx.settlement_date,
                                !.amount_pln = tx.price * tx.quantity,
                                !.commission_pln = tx.commission]]
    /\ g_pos' = g_pos + 1
    /\ UNCHANGED <<g_pc, prefetch_years, pit_zg, open_pos, portfolio, report>>
    /\ UNCHANGED <<fifoVars, taxVars, divVars>>
    /\ UNCHANGED nonGenVars

\* `tx.commission_currency or tx.currency`
CommissionCurrency(tx) ==
    IF tx.commission_currency = "" THEN tx.currency ELSE tx.commission_currency

\* Lines 256-275: get_rate returns (for the commission's currency too, when
\* it is a third one).
EnrichOk ==
    /\ g_pc = "enrich"
    /\ g_pos <= Len(gen_transactions)
    /\ LET tx == gen_transactions[g_pos]
           got == GetRate(tx.currency, tx.settlement_date)
           comm_currency == CommissionCurrency(tx)
           commission_pln ==
               IF Upper(comm_currency) = Upper(tx.currency)
               THEN RoundHalfUp(tx.commission * got.rate, RateScale)
               ELSE IF Upper(comm_currency) = "PLN" THEN tx.commission
               ELSE RoundHalfUp(tx.commission
                                    * GetRate(comm_currency,
                                              tx.settlement_date).rate,
                                RateScale)
       IN /\ Upper(tx.currency) # "PLN"
          /\ gen_transactions' =
                 [gen_transactions EXCEPT ![g_pos] =
                     [tx EXCEPT !.nbp_rate = got.rate,
                                !.nbp_rate_date = got.date,
                                !.amount_pln =
                                    RoundHalfUp(tx.price * tx.quantity * got.rate,
                                                RateScale),
                                !.commission_pln = commission_pln]]
    /\ g_pos' = g_pos + 1
    /\ UNCHANGED <<g_pc, prefetch_years, pit_zg, open_pos, portfolio, report>>
    /\ UNCHANGED <<fifoVars, taxVars, divVars>>
    /\ UNCHANGED nonGenVars

WarningsAfterRateErrorNone(ws, tx) == ws

\* Lines 277-279: warnings.append("Blad kursu NBP dla <symbol> na dzien ...")
WarningsAfterRateError(ws, tx) ==
    Append(ws, [kind |-> "Blad kursu NBP", symbol |-> tx.symbol,
                date |-> tx.settlement_date])

\* Lines 256-283: get_rate raises ValueError, for the record's currency or,
\* the first call having returned, for the commission's third currency.
EnrichValueError ==
    /\ g_pc = "enrich"
    /\ g_pos <= Len(gen_transactions)
    /\ LET tx == gen_transactions[g_pos]
           got == GetRate(tx.currency, tx.settlement_date)
           comm_currency == CommissionCurrency(tx)
           third == /\ Upper(comm_currency) # Upper(tx.currency)
                    /\ Upper(comm_currency) # "PLN"
       IN /\ Upper(tx.currency) # "PLN"
          /\ \E first_returned \in {FALSE, third} :
                gen_transactions' =
                    [gen_transactions EXCEPT ![g_pos] =
                        [tx EXCEPT !.nbp_rate = RateScale,
                                   !.nbp_rate_date =
                                       IF first_returned THEN got.date
                                       ELSE tx.nbp_rate_date,
                                   !.amount_pln = tx.price * tx.quantity]]
          /\ tax_warnings' = WarningsAfterRateError(tax_warnings, tx)
    /\ g_pos' = g_pos + 1
    /\ UNCHANGED <<g_pc, prefetch_years, pit_zg, open_pos, portfolio, report>>
    /\ UNCHANGED <<fifoVars, taxStateVars, divVars>>
    /\ UNCHANGED nonGenVars

EnrichmentReturnedEarly == g_pos >= 1

\* Line 246: the for-loop has no record left and _enrich_nbp_rates returns.
EnrichmentReturned == g_pos > Len(gen_transactions)

\* Lines 116-132: enrichment has returned; the BUY/SELL records of every
\* year go to the engine, the dividend records of the tax year are set aside
\* for the calculator.
CallFifo ==
    /\ g_pc = "enrich"
    /\ EnrichmentReturned
    /\ transactions' = FilterRecords(gen_transactions, {BUY, SELL})
    /\ div_transactions' =
           AsDateTimes(FilterRecordsOfYear(gen_transactions,
                                           {DIVIDEND, TAX_WHT}, tax_year))
    /\ pc' = "start"
    /\ g_pc' = "fifo"
    /\ UNCHANGED <<gen_transactions, prefetch_years, g_pos, pit_zg, open_pos,
                   portfolio, report>>
    /\ UNCHANGED <<fifoStateVars, taxVars, v_pc, divStateVars, div_log>>
    /\ UNCHANGED nonGenVars

\* Line 175: the capital-gains summary is built; calculate(year_divs).
CallDividends ==
    /\ g_pc = "fifo"
    /\ t_pc = "done"
    /\ v_pc' = "call"
    /\ g_pc' = "dividends"
    /\ UNCHANGED <<gen_transactions, prefetch_years, g_pos, pit_zg, open_pos,
                   portfolio, report>>
    /\ UNCHANGED <<fifoVars, taxVars, div_transactions, divStateVars, div_log>>
    /\ UNCHANGED nonGenVars

\* _build_country_breakdown (lines 285-328): plain symbols count as "US",
\* a dividend without ISIN as "XX"; the rows are sorted by country code.
CountryBreakdownOf(ms, divs) ==
    LET us == [country_code |-> "US",
               capital_gains_pln |-> SumField(ms, "profit_pln"),
               dividend_income_pln |-> 0, tax_paid_abroad_pln |-> 0]
        xx == [country_code |-> "XX", capital_gains_pln |-> 0,
               dividend_income_pln |-> SumField(divs, "gross_amount_pln"),
               tax_paid_abroad_pln |-> SumField(divs, "wht_amount_pln")]
    IN (IF \E i \in DOMAIN ms : ms[i].profit_pln # 0 THEN <<us>> ELSE <<>>)
       \o (IF divs # <<>> THEN <<xx>> ELSE <<>>)

\* Lines 191-204: the OpenPosition of one lot.
OpenPositionOf(symbol, lot) ==
    LET tx == transactions[lot.transaction]
        rate == RateOr1(tx.nbp_rate)
    IN [symbol |-> symbol, quantity |-> lot.remaining_qty,
        buy_date |-> tx.trade_date, buy_price |-> tx.price,
        currency |-> tx.currency,
        cost_pln |-> RoundHalfUp(tx.price * lot.remaining_qty * rate, RateScale),
        nbp_rate |-> rate]

\* Lines 188-204: fifo_result.open_positions in the order of its keys.
OpenPositionsOf ==
    LET F[k \in 0..Len(buy_order)] ==
            IF k = 0 THEN <<>>
            ELSE F[k - 1] \o
                 [j \in DOMAIN open_positions[buy_order[k]] |->
                     OpenPositionOf(buy_order[k],
                                    open_positions[buy_order[k]][j])]
    IN F[Len(buy_order)]

\* Steps 6 and 7 (lines 184-204).
BreakdownAndOpenPositions ==
    /\ g_pc = "dividends"
    /\ v_pc = "done"
    /\ pit_zg' = CountryBreakdownOf(year_matches, div_results)
    /\ open_pos' = OpenPositionsOf
    /\ g_pc' = "analytics"
    /\ UNCHANGED <<gen_transactions, prefetch_years, g_pos, portfolio, report>>
    /\ UNCHANGED <<fifoVars, taxVars, divVars>>
    /\ UNCHANGED nonGenVars

\* DividendCalculator.calculate(all_divs_tx) as one call: its results ...
CalculateResults(txs) ==
    LET ds == FilterAction(txs, DIVIDEND)
        ws == FilterAction(txs, TAX_WHT)
    IN [k \in DOMAIN ds |->
           DividendResultOf(txs, ds[k], FindMatchingWht(txs, ds[k], ws).wht)]

\* ... and the lines it writes to the logger.
CalculateLog(txs) ==
    LET ds == FilterAction(txs, DIVIDEND)
        ws == FilterAction(txs, TAX_WHT)
        F[k \in 0..Len(ds)] ==
            IF k = 0 THEN <<>>
            ELSE IF FindMatchingWht(txs, ds[k], ws).logged
                 THEN Append(F[k - 1],
                             [kind |-> "No matching WHT",
                              symbol |-> txs[ds[k]].symbol,
                              date |-> DateOf(txs[ds[k]].trade_date)])
                 ELSE F[k - 1]
    IN F[Len(ds)]

\* all_divs_tx (lines 209-212)
AllDivsTx == AsDateTimes(FilterRecords(gen_transactions, {DIVIDEND, TAX_WHT}))

\* PortfolioAnalytics.compute: the lifetime totals it is built from.
PortfolioOf(all_matches, all_dividends, positions) ==
    [realized_pnl_pln |-> SumField(all_matches, "profit_pln"),
     dividends_gross_pln |-> SumField(all_dividends, "gross_amount_pln"),
     open_positions |-> Len(positions)]

\* Lines 207-218: the analytics step returns.
AnalyticsOk ==
    /\ g_pc = "analytics"
    /\ portfolio' = <<PortfolioOf(matches, CalculateResults(AllDivsTx), open_pos)>>
    /\ div_log' = div_log \o CalculateLog(AllDivsTx)
    /\ g_pc' = "return"
    /\ UNCHANGED <<gen_transactions, prefetch_years, g_pos, pit_zg, open_pos,
                   report>>
    /\ UNCHANGED <<fifoVars, taxVars, v_pc, div_transactions, divStateVars>>
    /\ UNCHANGED nonGenVars

WarningsAfterAnalyticsErrorNone(ws) == ws

\* Line 220: warnings.append(f"Blad analizy portfela: {e}")
WarningsAfterAnalyticsError(ws) ==
    Append(ws, [kind |-> "Blad analizy portfela"])

\* Lines 207-220: the analytics step raises, inside calculate() before it
\* logs anything or later inside compute(); `portfolio` stays None.
AnalyticsRaises ==
    /\ g_pc = "analytics"
    /\ \E in_compute \in BOOLEAN :
          div_log' = IF in_compute THEN div_log \o CalculateLog(AllDivsTx)
                     ELSE div_log
    /\ tax_warnings' = WarningsAfterAnalyticsError(tax_warnings)
    /\ g_pc' = "return"
    /\ UNCHANGED <<gen_transactions, prefetch_years, g_pos, pit_zg, open_pos,
                   portfolio, report>>
    /\ UNCHANGED <<fifoVars, taxStateVars, v_pc, div_transactions,
                   divStateVars>>
    /\ UNCHANGED nonGenVars

\* Lines 222-230: return TaxReport(...).
GenReturn ==
    /\ g_pc = "return"
    /\ report' =
           <<[tax_year |-> tax_year,
              capital_gains |-> [revenue_pln |-> total_revenue,
                                 costs_pln |-> total_costs,
                                 profit_pln |-> profit,
                                 tax_due |-> tax_due,
                                 matches |-> year_matches],
              dividends |-> dividend_summary,
              pit_zg |-> pit_zg,
              open_positions |-> open_pos,
              warnings |-> tax_warnings,
              portfolio |-> portfolio]>>
    /\ g_pc' = "returned"
    /\ UNCHANGED <<gen_transactions, prefetch_years, g_pos, pit_zg, open_pos,
                   portfolio>>
    /\ UNCHANGED <<fifoVars, taxVars, divVars>>
    /\ UNCHANGED nonGenVars

GenNext ==
    \/ GenEnter
    \/ PrefetchOk
    \/ PrefetchRaises
    \/ PrefetchDone
    \/ EnrichPln
    \/ EnrichOk
    \/ EnrichValueError
    \/ CallFifo
    \/ FifoNext
    \/ FilterYear
    \/ TaxNext
    \/ CallDividends
    \/ DivNext
    \/ BreakdownAndOpenPositions
    \/ AnalyticsOk
    \/ AnalyticsRaises
    \/ GenReturn

GenIdle ==
    /\ g_pc = "idle"
    /\ gen_transactions = <<>>
    /\ prefetch_years = {}
    /\ g_pos = 0
    /\ pit_zg = <<>>
    /\ open_pos = <<>>
    /\ portfolio = None
    /\ report = None

\* A short sale, a buy with its commission in a third currency or not, a
\* sell spelt "usd" with its commission in PLN, a PLN buy of another
\* symbol, a dividend of the year before, a dividend and its withholding.
GenTxDomain ==
    {GenTx("AAA", Date(2024, 12, 27), SELL, 1, 5000, 0, "USD", ""),
     GenTx("AAA", Date(2024, 12, 30), BUY, 2, 4000, 100, "USD", ""),
     GenTx("AAA", Date(2024, 12, 30), BUY, 2, 4000, 100, "USD", "EUR"),
     GenTx("AAA", Date(2025, 1, 3), SELL, 1, 5000, 100, "usd", "PLN"),
     GenTx("BBB", Date(2025, 1, 3), BUY, 1, 10000, 0, "PLN", ""),
     GenTx("AAA", Date(2024, 12, 30), DIVIDEND, 10000, 1, 0, "USD", ""),
     GenTx("AAA", Date(2025, 3, 11), DIVIDEND, 10000, 1, 0, "USD", ""),
     GenTx("AAA", Date(2025, 3, 11), TAX_WHT, 1500, 1, 0, "USD", "")}

\* A year of trading: a lot bought in 2024 and partly sold in 2025, a
\* dividend with its withholding.
ScenarioFullYear ==
    <<GenTx("AAA", Date(2024, 12, 30), BUY, 2, 4000, 100, "USD", "EUR"),
      GenTx("AAA", Date(2025, 1, 3), SELL, 1, 5000, 100, "usd", "PLN"),
      GenTx("AAA", Date(2025, 3, 11), DIVIDEND, 10000, 1, 0, "USD", ""),
      GenTx("AAA", Date(2025, 3, 11), TAX_WHT, 1500, 1, 0, "USD", "")>>

\* Scenario inputs of the specification's test section.
ScenarioOrphanSell == <<Tx("AAA", 2, SELL, 8, 5000, 0, 400)>>

ScenarioSimpleFifo ==
    <<Tx("AAA", 1, BUY, 10, 10000, 0, 400),
      Tx("AAA", 3, SELL, 10, 15000, 0, 400)>>

FifoTxDomain ==
    {Tx(s, d, a, q, 10000, 0, 400) :
        s \in Symbols, d \in TradeDates, a \in {BUY, SELL}, q \in Quantities}
    \cup {Tx("AAA", 1, DIVIDEND, 1, 100, 0, 400)}

FifoInitRest ==
    /\ pc = "start"
    /\ buys_sells = <<>>
    /\ pos = 0
    /\ remaining = 0
    /\ buy_queues = [s \in Symbols |-> <<>>]
    /\ short_queues = [s \in Symbols |-> <<>>]
    /\ short_order = <<>>
    /\ buy_order = <<>>
    /\ matches = <<>>
    /\ warnings = <<>>
    /\ open_positions = [s \in Symbols |-> <<>>]

FifoIdle ==
    /\ transactions = <<>>
    /\ FifoInitRest

FifoInit ==
    /\ transactions \in SeqsUpTo(FifoTxDomain, MaxLen)
                           \cup {ScenarioOrphanSell, ScenarioSimpleFifo}
    /\ FifoInitRest
    /\ DedupIdle
    /\ RateIdle
    /\ TaxIdle
    /\ DivIdle
    /\ SettleIdle
    /\ FetchIdle
    /\ WriterIdle
    /\ GenIdle
    /\ AgainIdle

MoneyTxDomain ==
    {Tx("AAA", 1, a, q, p, c, r) :
        a \in {BUY, SELL}, q \in MoneyQuantities, p \in MoneyPrices,
        c \in MoneyCommissions, r \in MoneyRates}

MoneyInit ==
    /\ transactions \in SeqsUpTo(MoneyTxDomain, MaxMoneyLen)
                           \cup {ScenarioSimpleFifo}
    /\ FifoInitRest
    /\ DedupIdle
    /\ RateIdle
    /\ TaxIdle
    /\ DivIdle
    /\ SettleIdle
    /\ FetchIdle
    /\ WriterIdle
    /\ GenIdle
    /\ AgainIdle

SpecFifo == FifoInit /\ [][FifoNext]_vars

SpecMoney == MoneyInit /\ [][FifoNext]_vars

AgainInit ==
    /\ transactions \in SeqsUpTo(FifoTxDomain, MaxLen)
    /\ FifoInitRest
    /\ x_pc = "all"
    /\ x_symbol \in Symbols
    /\ x_first = <<>>
    /\ DedupIdle
    /\ RateIdle
    /\ TaxIdle
    /\ DivIdle
    /\ SettleIdle
    /\ FetchIdle
    /\ WriterIdle
    /\ GenIdle

AgainNext ==
    \/ FifoNext
    \/ ProcessOnlySymbol

SpecFifoAgain == AgainInit /\ [][AgainNext]_vars

\* Records as no parser writes them: zero and negative quantities, and an
\* action that is neither BUY nor SELL; every record carries a commission.
AnyQuantities == {-1, 0, 1, 2}

AnyTxDomain ==
    {Tx("AAA", 1, a, q, 10000, 5, 400) : a \in {BUY, SELL}, q \in AnyQuantities}
    \cup {Tx("AAA", 1, DIVIDEND, 0, 100, 0, 400)}

AnyInit ==
    /\ transactions \in SeqsUpTo(AnyTxDomain, MaxAnyLen)
    /\ FifoInitRest
    /\ DedupIdle
    /\ RateIdle
    /\ TaxIdle
    /\ DivIdle
    /\ SettleIdle
    /\ FetchIdle
    /\ WriterIdle
    /\ GenIdle
    /\ AgainIdle

\* process() is sequential code: it takes its next step whenever it has one.
SpecFifoAny == AnyInit /\ [][FifoNext]_vars /\ WF_vars(FifoNext)

DedupInit ==
    /\ dedup_arg \in SeqsUpTo(DedupTxDomain, MaxDedupLen) \cup {ScenarioAggregate}
    /\ d_pc = "pass1"
    /\ deduped = <<>>
    /\ before_pass = <<>>
    /\ results = <<>>
    /\ FifoIdle
    /\ RateIdle
    /\ TaxIdle
    /\ DivIdle
    /\ SettleIdle
    /\ FetchIdle
    /\ WriterIdle
    /\ GenIdle
    /\ AgainIdle

SpecDedup == DedupInit /\ [][DedupNext]_vars

RateInit ==
    /\ r_pc = "call"
    /\ currency \in Currencies
    /\ for_date \in ForDates
    /\ nbp_rates \in InitialCaches(for_date)
    /\ target = 0
    /\ candidate = 0
    /\ attempts = 0
    /\ fetched = <<>>
    /\ cache_lookups = <<>>
    /\ rate_result = [rate |-> 0, date |-> 0]
    /\ FifoIdle
    /\ DedupIdle
    /\ TaxIdle
    /\ DivIdle
    /\ SettleIdle
    /\ FetchIdle
    /\ WriterIdle
    /\ GenIdle
    /\ AgainIdle

SpecRate == RateInit /\ [][RateNext]_vars

\* A call of get_rate runs on: the loop is sequential code with a 30 s
\* timeout on every request (line 116).
SpecRateLive == RateInit /\ [][RateNext]_vars /\ WF_vars(RateNext)

TaxInit ==
    /\ t_pc = "sum"
    /\ tax_year \in TaxYears
    /\ year_matches \in SeqsUpTo(TaxMatchDomain, MaxTaxMatches)
    /\ prior_year_losses \in PriorLosses
    /\ total_revenue = 0
    /\ total_costs = 0
    /\ profit = 0
    /\ tax_due = 0
    /\ tax_warnings = <<>>
    /\ FifoIdle
    /\ DedupIdle
    /\ RateIdle
    /\ DivIdle
    /\ SettleIdle
    /\ FetchIdle
    /\ WriterIdle
    /\ GenIdle
    /\ AgainIdle

SpecTax == TaxInit /\ [][TaxNext]_vars

\* Scenario: Sell 5 @ 50 with no prior buy, then Buy 5 @ 40 in the next year.
ScenarioShortSell ==
    <<Tx("AAA", Date(2023, 12, 29), SELL, 5, 5000, 0, 400),
      Tx("AAA", Date(2024, 1, 2), BUY, 5, 4000, 0, 400)>>

ReportTradeDates == {Date(2023, 12, 29), Date(2024, 1, 2)}

ReportTxDomain ==
    {Tx("AAA", d, BUY, q, 4000, 0, 400) : d \in ReportTradeDates, q \in Quantities}
    \cup {Tx("AAA", d, SELL, q, 5000, 0, 400) :
              d \in ReportTradeDates, q \in Quantities}

\* generate(transactions, tax_year, prior_year_losses) from step 3 on, the
\* transactions being BUY/SELL records whose rates are already set.
ReportInit ==
    /\ transactions \in SeqsUpTo(ReportTxDomain, MaxLen) \cup {ScenarioShortSell}
    /\ FifoInitRest
    /\ t_pc = "filter"
    /\ tax_year \in TaxYears
    /\ year_matches = <<>>
    /\ prior_year_losses \in {None, <<10000>>}
    /\ total_revenue = 0
    /\ total_costs = 0
    /\ profit = 0
    /\ tax_due = 0
    /\ tax_warnings = <<>>
    /\ DedupIdle
    /\ RateIdle
    /\ DivIdle
    /\ SettleIdle
    /\ FetchIdle
    /\ WriterIdle
    /\ GenIdle
    /\ AgainIdle

ReportNext ==
    \/ FifoNext
    \/ FilterYear
    \/ TaxNext

SpecReport == ReportInit /\ [][ReportNext]_vars

DivInit ==
    /\ v_pc = "call"
    /\ div_transactions \in SeqsUpTo(DivTxDomain, MaxDivLen)
    /\ DivInitRest
    /\ FifoIdle
    /\ DedupIdle
    /\ RateIdle
    /\ TaxIdle
    /\ SettleIdle
    /\ FetchIdle
    /\ WriterIdle
    /\ GenIdle
    /\ AgainIdle

SpecDiv == DivInit /\ [][DivNext]_vars

SettleInit ==
    /\ s_pc = "call"
    /\ settle_trade_date \in SettleTradeDates
    /\ exchange_country \in ExchangeCountries
    /\ offset = 0
    /\ settle = 0
    /\ days_added = 0
    /\ FifoIdle
    /\ DedupIdle
    /\ RateIdle
    /\ TaxIdle
    /\ DivIdle
    /\ FetchIdle
    /\ WriterIdle
    /\ GenIdle
    /\ AgainIdle

SpecSettle == SettleInit /\ [][SettleNext]_vars

FetchInit ==
    /\ f_pc = "call"
    /\ fetch_year \in FetchYears
    /\ today \in Todays
    /\ chunk_start = 0
    /\ year_end = 0
    /\ total_tables = 0
    /\ requests = <<>>
    /\ FifoIdle
    /\ DedupIdle
    /\ RateIdle
    /\ TaxIdle
    /\ DivIdle
    /\ SettleIdle
    /\ WriterIdle
    /\ GenIdle
    /\ AgainIdle

WriterInit ==
    /\ writers \in {<<a, b, c>> : a \in SingleWriters, b \in SingleWriters,
                                   c \in BulkWriters}
    /\ w_pc = [w \in WriterIds |-> "fetch"]
    /\ w_pos = [w \in WriterIds |-> 0]
    /\ db_lock = 0
    /\ txn = {}
    /\ r_pc = "idle"
    /\ currency = "PLN"
    /\ for_date = 0
    /\ target = 0
    /\ candidate = 0
    /\ attempts = 0
    /\ nbp_rates \in {{}, {Row("USD", Date(2025, 1, 2), 400)}}
    /\ fetched = <<>>
    /\ cache_lookups = <<>>
    /\ rate_result = [rate |-> 0, date |-> 0]
    /\ FifoIdle
    /\ DedupIdle
    /\ TaxIdle
    /\ DivIdle
    /\ SettleIdle
    /\ FetchIdle
    /\ GenIdle
    /\ AgainIdle

SpecWriters == WriterInit /\ [][WriterNext]_vars

GenInit ==
    /\ g_pc = "call"
    /\ gen_transactions \in SeqsUpTo(GenTxDomain, MaxGenLen)
                               \cup {ScenarioFullYear}
    /\ prefetch_years = {}
    /\ g_pos = 0
    /\ pit_zg = <<>>
    /\ open_pos = <<>>
    /\ portfolio = None
    /\ report = None
    /\ pc = "idle"
    /\ transactions = <<>>
    /\ buys_sells = <<>>
    /\ pos = 0
    /\ remaining = 0
    /\ buy_queues = [s \in Symbols |-> <<>>]
    /\ short_queues = [s \in Symbols |-> <<>>]
    /\ short_order = <<>>
    /\ buy_order = <<>>
    /\ matches = <<>>
    /\ warnings = <<>>
    /\ open_positions = [s \in Symbols |-> <<>>]
    /\ t_pc = "filter"
    /\ tax_year \in {2024, 2025}
    /\ year_matches = <<>>
    /\ prior_year_losses \in {None, <<10000>>}
    /\ total_revenue = 0
    /\ total_costs = 0
    /\ profit = 0
    /\ tax_due = 0
    /\ tax_warnings = <<>>
    /\ DivIdle
    /\ DedupIdle
    /\ RateIdle
    /\ SettleIdle
    /\ FetchIdle
    /\ WriterIdle
    /\ AgainIdle

SpecGenerate == GenInit /\ [][GenNext]_vars

\* Each request ends (the HTTP client has a timeout) and the method runs on.
SpecFetch == FetchInit /\ [][FetchNext]_vars /\ WF_vars(FetchNext)

----------------------------------------------------------------------------
(* Claims about FifoEngine                                                 *)

RECURSIVE SumOver(_, _)
\* Sum of the quantities of the records of sequence s that satisfy flag f,
\* f being a sequence of booleans of the same length.
SumOver(s, f) ==
    IF s = <<>> THEN 0
    ELSE (IF Head(f) THEN Head(s).quantity ELSE 0) + SumOver(Tail(s), Tail(f))

TotalQty(sym, act) ==
    SumOver(transactions,
            [i \in DOMAIN transactions |->
                transactions[i].symbol = sym /\ transactions[i].action = act])

NonOrphanMatchQty(sym) ==
    SumOver(matches,
            [i \in DOMAIN matches |->
                matches[i].symbol = sym /\ ~matches[i].is_orphan])

AllMatchQty(sym) ==
    SumOver(matches, [i \in DOMAIN matches |-> matches[i].symbol = sym])

RECURSIVE SumRemaining(_)
SumRemaining(lots) ==
    IF lots = <<>> THEN 0
    ELSE Head(lots).remaining_qty + SumRemaining(Tail(lots))

\* C1: when process() has returned, for every symbol the total BUY quantity
\* equals the quantity of the non-orphan matches plus the remaining quantity
\* of the open positions, and the total SELL quantity equals the quantity of
\* all matches, orphans included.
C1_QuantityConservation ==
    pc = "done" =>
        \A sym \in AllSymbols \cup Symbols :
            /\ TotalQty(sym, BUY) =
                   NonOrphanMatchQty(sym) + SumRemaining(open_positions[sym])
            /\ TotalQty(sym, SELL) = AllMatchQty(sym)

\* A run that ended with a partial fill: a non-orphan match, an orphan match
\* and an open position with less than its lot's original quantity.
C1_Witness ==
    /\ pc = "done"
    /\ \E i \in DOMAIN matches : ~matches[i].is_orphan
    /\ \E i \in DOMAIN matches : matches[i].is_orphan
    /\ \E sym \in Symbols : \E k \in DOMAIN open_positions[sym] :
           open_positions[sym][k].remaining_qty <
               transactions[open_positions[sym][k].transaction].quantity

\* C3: every match of a SELL against a buy lot is against a lot whose trade
\* timestamp is the earliest among the symbol's lots that still have
\* remaining quantity: no lot waiting in the symbol's buy queue is older than
\* the buy of an ordinary (non-short, non-orphan) match.
C3_FifoOrder ==
    \A i \in DOMAIN matches :
        (~matches[i].is_short /\ ~matches[i].is_orphan) =>
            \A k \in DOMAIN buy_queues[matches[i].symbol] :
                LET lot == buy_queues[matches[i].symbol][k]
                IN lot.remaining_qty > 0 =>
                       transactions[matches[i].buy_tx].trade_date
                           <= transactions[lot.transaction].trade_date

\* A SELL has just consumed the older of two lots although the newer lot
\* came first in the input list.
C3_Witness ==
    \E i \in DOMAIN matches :
        /\ ~matches[i].is_short /\ ~matches[i].is_orphan
        /\ \E k \in DOMAIN buy_queues[matches[i].symbol] :
               LET lot == buy_queues[matches[i].symbol][k]
               IN /\ lot.remaining_qty > 0
                  /\ lot.transaction < matches[i].buy_tx
                  /\ transactions[matches[i].buy_tx].trade_date
                         < transactions[lot.transaction].trade_date

OrphanIdx == {i \in DOMAIN matches : matches[i].is_orphan}

\* Short lots still open: <<symbol, position in the queue>>.
OpenShortLots ==
    UNION {{<<sym, k>> : k \in {j \in DOMAIN short_queues[sym] :
                                    short_queues[sym][j].remaining_qty > 0}} :
           sym \in Symbols}

\* The k-th orphan match (in the order of result.matches).
RECURSIVE NthOrphan(_, _)
NthOrphan(ms, k) ==
    IF Head(ms).is_orphan
    THEN (IF k = 1 THEN Head(ms) ELSE NthOrphan(Tail(ms), k - 1))
    ELSE NthOrphan(Tail(ms), k)

\* C9: once the orphan pass has run, every short lot with remaining quantity
\* has exactly one orphan match (quantity = the remaining quantity, cost 0,
\* price and rate of the sell) and exactly one warning; a sell with no open
\* short lot has no orphan match; a lone SELL of 8 gives one match, one warning.
C9_OrphanSells ==
    pc \in {"collect", "done"} =>
        /\ \A sk \in OpenShortLots :
               LET lot == short_queues[sk[1]][sk[2]]
                   sell == transactions[lot.transaction]
                   mine == {i \in OrphanIdx : matches[i].sell_tx = lot.transaction}
               IN /\ Cardinality(mine) = 1
                  /\ \A i \in mine :
                         /\ matches[i].symbol = sell.symbol
                         /\ matches[i].quantity = lot.remaining_qty
                         /\ matches[i].buy_cost_pln = 0
                         /\ matches[i].sell_price = sell.price
                         /\ matches[i].sell_nbp_rate = sell.nbp_rate
                         /\ ~matches[i].is_short
        /\ \A i \in OrphanIdx :
               \E sk \in OpenShortLots :
                   short_queues[sk[1]][sk[2]].transaction = matches[i].sell_tx
        /\ Len(warnings) = Cardinality(OrphanIdx)
        /\ Cardinality(OrphanIdx) = Cardinality(OpenShortLots)
        /\ \A k \in DOMAIN warnings :
               LET m == NthOrphan(matches, k)
               IN /\ warnings[k].symbol = m.symbol
                  /\ warnings[k].quantity = m.quantity
                  /\ warnings[k].date = m.sell_date
        /\ transactions = ScenarioOrphanSell =>
               /\ Len(matches) = 1
               /\ matches[1].is_orphan /\ matches[1].quantity = 8
               /\ matches[1].buy_cost_pln = 0
               /\ Len(warnings) = 1

\* A run with one short lot that was covered in part by a later BUY and is
\* an orphan for the rest, and one that was covered in full.
C9_Witness ==
    /\ pc = "done"
    /\ \E i \in OrphanIdx :
           /\ matches[i].quantity < transactions[matches[i].sell_tx].quantity
           /\ \E j \in DOMAIN matches :
                  matches[j].is_short /\ matches[j].sell_tx = matches[i].sell_tx
    /\ \E j \in DOMAIN matches :
           /\ matches[j].is_short
           /\ \A i \in OrphanIdx : matches[i].sell_tx # matches[j].sell_tx

\* v is n/d rounded to the nearest integer, a tie going away from zero
\* (Decimal's ROUND_HALF_UP), d > 0.
IsHalfUpOf(v, n, d) ==
    IF n >= 0 THEN 2 * d * v <= 2 * n + d /\ 2 * n + d < 2 * d * (v + 1)
              ELSE 2 * d * (-v) <= 2 * (-n) + d /\ 2 * (-n) + d < 2 * d * (-v + 1)

\* C10: every match has profit = revenue - cost; a non-orphan match has
\* cost = (buy price * qty + allocated buy commission) * buy rate and
\* revenue = (sell price * qty - allocated sell commission) * sell rate, each
\* rounded half-up to 0.01; an orphan match has cost 0 and profit = revenue;
\* Buy 10 @ 100 and Sell 10 @ 150 at rate 4 give 4000 / 6000 / 2000.
C10_MatchInvariant ==
    /\ \A i \in DOMAIN matches :
           LET m == matches[i]
               sell == transactions[m.sell_tx]
           IN /\ m.profit_pln = m.sell_revenue_pln - m.buy_cost_pln
              /\ IsHalfUpOf(m.sell_revenue_pln,
                            (sell.price * m.quantity - m.sell_commission)
                                * sell.nbp_rate, RateScale)
              /\ m.is_orphan =>
                     m.buy_cost_pln = 0 /\ m.profit_pln = m.sell_revenue_pln
              /\ ~m.is_orphan =>
                     IsHalfUpOf(m.buy_cost_pln,
                                (transactions[m.buy_tx].price * m.quantity
                                     + m.buy_commission)
                                    * transactions[m.buy_tx].nbp_rate, RateScale)
    /\ (transactions = ScenarioSimpleFifo /\ pc = "done") =>
           /\ Len(matches) = 1
           /\ matches[1].buy_cost_pln = 400000
           /\ matches[1].sell_revenue_pln = 600000
           /\ matches[1].profit_pln = 200000

\* A partial fill whose allocated buy commission is not zero and whose cost
\* falls exactly halfway between two minor units before rounding.
C10_Witness ==
    \E i \in DOMAIN matches :
        LET m == matches[i]
            buy == transactions[m.buy_tx]
        IN /\ ~m.is_orphan
           /\ m.quantity < buy.quantity
           /\ m.buy_commission > 0
           /\ (2 * (buy.price * m.quantity + m.buy_commission) * buy.nbp_rate)
                  % (2 * RateScale) = RateScale

----------------------------------------------------------------------------
(* Claims about NbpClient.get_rate                                         *)

\* t is the last business day strictly before d.
IsLastBusinessDayBefore(t, d) ==
    /\ t < d
    /\ IsPolishBusinessDay(t)
    /\ \A x \in (t + 1)..(d - 1) : ~IsPolishBusinessDay(x)

\* The candidate dates of the search so far: those fetched, then the one
\* the loop holds for its next fetch.
Candidates ==
    IF r_pc = "fetch" /\ attempts < MaxAttempts
    THEN Append(fetched, candidate) ELSE fetched

SearchIsMonotonic ==
    /\ target # 0 => IsLastBusinessDayBefore(target, for_date)
    /\ Candidates # <<>> => Candidates[1] = target
    /\ \A k \in DOMAIN Candidates :
           /\ IsPolishBusinessDay(Candidates[k])
           /\ k > 1 => Candidates[k] < Candidates[k - 1]

\* C4 as stated: for any currency, PLN included, the date returned is
\* before the date asked for and the candidates are business days that
\* strictly decrease from the last business day before it.
C4_AnyCurrencyDatedBefore ==
    /\ r_pc = "returned" => rate_result.date < for_date
    /\ SearchIsMonotonic

\* C4 as amended: for a currency other than PLN the date returned is before
\* the date asked for, the first candidate is the last business day strictly
\* before it and every later candidate is an earlier business day; for PLN
\* the call returns rate 1 with the date asked for and fetches nothing.
C4_RateMonotonicSearch ==
    /\ Upper(currency) # "PLN" =>
           /\ r_pc = "returned" =>
                  /\ rate_result.date < for_date
                  /\ rate_result.date \in {target} \cup Range(fetched)
           /\ SearchIsMonotonic
    /\ (Upper(currency) = "PLN" /\ r_pc = "returned") =>
           /\ rate_result = [rate |-> RateScale, date |-> for_date]
           /\ fetched = <<>>

\* A rate found at the third fetch, after a step over a weekend or holiday,
\* for a date whose eve is not a business day either.
C4_Witness ==
    /\ r_pc = "returned"
    /\ Upper(currency) # "PLN"
    /\ Len(fetched) = 3
    /\ rate_result.date = fetched[3]
    /\ for_date - target > 1
    /\ \E k \in 1..2 : fetched[k] - fetched[k + 1] > 1

----------------------------------------------------------------------------
(* Claims about the capital-gains tax due                                  *)

\* C5: tax_due = max(0, floor(0.19 * profit + 0.5)), profit being the profit
\* after the loss deduction: a whole number >= 0, a value exactly halfway
\* goes up (profit 650.00, 19% = 123.50, gives 124; profit 2000 gives 380).
C5_TaxDueRounding ==
    t_pc = "done" =>
        /\ tax_due >= 0
        /\ IF 19 * profit + 5000 >= 0
           THEN /\ 10000 * tax_due <= 19 * profit + 5000
                /\ 19 * profit + 5000 < 10000 * (tax_due + 1)
           ELSE tax_due = 0
        /\ (profit > 0 /\ (19 * profit) % 10000 = 5000) =>
               10000 * tax_due = 19 * profit + 5000
        /\ profit = 65000 => tax_due = 124
        /\ profit = 200000 => tax_due = 380

\* A report whose 19% of the profit falls exactly on a half unit, after a
\* loss deduction changed the profit.
C5_Witness ==
    /\ t_pc = "done"
    /\ tax_warnings # <<>>
    /\ profit > 0
    /\ (19 * profit) % 10000 = 5000

----------------------------------------------------------------------------
(* Claims about _dedup_transactions                                        *)

LastResult == results[Len(results)]

RECURSIVE IsSubseq(_, _)
\* a can be obtained from b by deleting elements.
IsSubseq(a, b) ==
    IF a = <<>> THEN TRUE
    ELSE IF b = <<>> THEN FALSE
    ELSE IF Head(a) = Head(b) THEN IsSubseq(Tail(a), Tail(b))
    ELSE IsSubseq(a, Tail(b))

\* C2: the deduplication applied to its own result returns that result
\* unchanged (same records, same order).
C2_DedupIdempotent ==
    Len(results) = 2 => results[2] = results[1]

\* C6: what a call returns is a subsequence of its argument (every record an
\* input record, relative order kept), so it is never longer; the same holds
\* of every single pass.
C6_DedupSubsequence ==
    /\ d_pc \in {"pass2", "pass3", "return"} => IsSubseq(deduped, before_pass)
    /\ d_pc = "returned" =>
           /\ IsSubseq(LastResult, dedup_arg)
           /\ Len(LastResult) <= Len(dedup_arg)

\* A call that dropped a record and returned at least two different ones.
C6_Witness ==
    /\ d_pc = "returned"
    /\ Len(LastResult) < Len(dedup_arg)
    /\ Len(LastResult) >= 2
    /\ LastResult[1] # LastResult[2]

IsFirstOccurrence(txs, i) == \A j \in 1..(i - 1) : txs[j].id # txs[i].id

\* C7: no two returned records share an id; every returned record is the
\* first record of its id in the argument; right after the exact-id pass
\* every id of the argument is present, by its first occurrence, once.
C7_ExactIdPass ==
    /\ d_pc = "returned" =>
           /\ \A k, l \in DOMAIN LastResult :
                  k # l => LastResult[k].id # LastResult[l].id
           /\ \A k \in DOMAIN LastResult :
                  \E i \in DOMAIN dedup_arg :
                      /\ dedup_arg[i] = LastResult[k]
                      /\ IsFirstOccurrence(dedup_arg, i)
    /\ d_pc = "pass2" =>
           \A i \in DOMAIN dedup_arg :
               IsFirstOccurrence(dedup_arg, i) =>
                   /\ Cardinality({k \in DOMAIN deduped :
                                      deduped[k].id = dedup_arg[i].id}) = 1
                   /\ \E k \in DOMAIN deduped : deduped[k] = dedup_arg[i]

\* Two different records with one id came in and the earlier one came out.
C7_Witness ==
    /\ d_pc = "returned"
    /\ \E i, j \in DOMAIN dedup_arg :
           /\ i < j
           /\ dedup_arg[i].id = dedup_arg[j].id
           /\ dedup_arg[i] # dedup_arg[j]
           /\ \E k \in DOMAIN LastResult : LastResult[k] = dedup_arg[i]

\* The members of the group of pre[i] in an aggregate pass.
SameGroup(pre, i, pass) ==
    {j \in DOMAIN pre :
        /\ pre[j].action \in {BUY, SELL}
        /\ pre[j].symbol = pre[i].symbol
        /\ pre[j].trade_date = pre[i].trade_date
        /\ pre[j].action = pre[i].action
        /\ pass = 2 => pre[j].price = pre[i].price}

\* Total quantity of the records of pre at the positions in G.
GroupQty(pre, G) ==
    LET F[i \in 0..Len(pre)] ==
            IF i = 0 THEN 0
            ELSE F[i - 1] + (IF i \in G THEN pre[i].quantity ELSE 0)
    IN F[Len(pre)]

\* The removal rule of one aggregate pass that turned pre into post.
PassRule(pre, post, pass) ==
    LET removed == {i \in DOMAIN pre :
                       \A k \in DOMAIN post : post[k].id # pre[i].id}
    IN /\ IsSubseq(post, pre)
       /\ Len(post) = Len(pre) - Cardinality(removed)
       /\ \A i \in DOMAIN pre :
              IF pre[i].action \notin {BUY, SELL}
              THEN i \notin removed
              ELSE LET G == SameGroup(pre, i, pass)
                       isAggregate ==
                           /\ Cardinality(G) > 1
                           /\ \E g \in G :
                                  /\ \A j \in G : pre[j].quantity <= pre[g].quantity
                                  /\ GroupQty(pre, G \ {g}) = pre[g].quantity
                   IN IF isAggregate
                      THEN /\ Cardinality(removed \cap G) = 1
                           /\ \A r \in removed \cap G :
                                  \A j \in G : pre[j].quantity <= pre[r].quantity
                      ELSE removed \cap G = {}

\* C8: in each aggregate pass a group of more than one BUY/SELL record loses
\* exactly one record, a largest one, if and only if the other members'
\* quantities add up to the largest quantity; every other record is kept;
\* the rows 16, 7, 100, 123 come back as the rows 16, 7, 100.
C8_AggregateRule ==
    /\ d_pc = "pass3" => PassRule(before_pass, deduped, 2)
    /\ d_pc = "return" => PassRule(before_pass, deduped, 3)
    /\ (Len(results) = 1 /\ dedup_arg = ScenarioAggregate) =>
           results[1] = SubSeq(ScenarioAggregate, 1, 3)

\* The blended-price pass has just removed the aggregate of two fills that
\* carry different prices; the two fills are still there.
C8_Witness ==
    /\ d_pc = "return"
    /\ Len(deduped) < Len(before_pass)
    /\ \E i, j \in DOMAIN deduped :
           /\ i # j
           /\ deduped[i].action = BUY
           /\ BlendedKey(deduped[i]) = BlendedKey(deduped[j])
           /\ deduped[i].price # deduped[j].price

----------------------------------------------------------------------------
(* Claims about the tax year of a match                                    *)

\* The trade date of the transaction that closed the position of match m.
ClosingDate(m) ==
    IF m.is_short THEN transactions[m.buy_tx].trade_date
                  ELSE transactions[m.sell_tx].trade_date

\* C11: a match is in the capital-gains summary of tax year Y if and only if
\* its closing transaction is dated in Y: the sell for a match that is not
\* short (orphans included), the covering buy for a short match; so every
\* match belongs to exactly one year. Sell 5 @ 50 with no prior buy and a
\* later Buy 5 @ 40 give one short match, counted only in the buy's year.
C11_YearByClosingEvent ==
    /\ \A i \in DOMAIN matches :
           /\ Cardinality({y \in TaxYears : InYear(matches[i], y)}) = 1
           /\ InYear(matches[i], YearOf(ClosingDate(matches[i])))
           /\ matches[i].is_orphan => ~matches[i].is_short
    /\ t_pc \in {"sum", "loss", "tax", "done"} =>
           /\ IsSubseq(year_matches, matches)
           /\ \A i \in DOMAIN matches :
                  (\E k \in DOMAIN year_matches : year_matches[k] = matches[i])
                      <=> YearOf(ClosingDate(matches[i])) = tax_year
           /\ Len(year_matches) =
                  Cardinality({i \in DOMAIN matches :
                                  YearOf(ClosingDate(matches[i])) = tax_year})
           /\ transactions = ScenarioShortSell =>
                  /\ Len(matches) = 1
                  /\ matches[1].is_short
                  /\ tax_year = 2024 => year_matches = matches
                  /\ tax_year # 2024 => year_matches = <<>>

\* A report that counts a short match whose sell is dated in another year
\* and leaves out a match that is not short.
C11_Witness ==
    /\ t_pc = "done"
    /\ \E i \in DOMAIN matches :
           /\ matches[i].is_short
           /\ YearOf(matches[i].sell_date) # tax_year
           /\ matches[i] \in Range(year_matches)
    /\ \E j \in DOMAIN matches :
           /\ ~matches[j].is_short
           /\ matches[j] \notin Range(year_matches)

----------------------------------------------------------------------------
(* Claims about the loss carryforward                                      *)

\* C12: with a prior-year loss L > 0 and a year's profit P > 0 (revenue less
\* cost of the year's matches) the deduction is min(0.5 * L rounded half-up
\* to 0.01, P), the taxed profit is P less the deduction and never negative,
\* and exactly one note records the deduction; with L absent or <= 0, or
\* P <= 0, nothing is deducted and no note is added.
C12_LossCarryforward ==
    t_pc \in {"tax", "done"} =>
        LET P == total_revenue - total_costs
        IN IF prior_year_losses # None /\ prior_year_losses[1] > 0 /\ P > 0
           THEN LET L == prior_year_losses[1]
                    half == (L + 1) \div 2
                    deduction == IF half <= P THEN half ELSE P
                IN /\ 2 * half - 1 <= L /\ L <= 2 * half
                   /\ profit = P - deduction
                   /\ profit >= 0
                   /\ Len(tax_warnings) = 1
                   /\ tax_warnings[1].deduction = deduction
                   /\ tax_warnings[1].losses = L
           ELSE /\ profit = P
                /\ tax_warnings = <<>>

\* Half of an odd loss (in 0.01) exceeds the year's profit: the deduction is
\* capped at the profit and nothing is left to tax.
C12_Witness ==
    /\ t_pc = "done"
    /\ prior_year_losses # None
    /\ prior_year_losses[1] % 2 = 1
    /\ total_revenue - total_costs > 0
    /\ Len(tax_warnings) = 1
    /\ tax_warnings[1].deduction = total_revenue - total_costs
    /\ profit = 0

----------------------------------------------------------------------------
(* Claims about the cache and the bound of the rate search                 *)

\* C13: a remote fetch for a (currency, date) pair is issued only after that
\* pair was looked up in the cache and missed, and no date whose rate is in
\* the cache is fetched remotely, on the first candidate or on a retry.
C13_CacheBeforeNetwork ==
    [][fetched' # fetched =>
           /\ CachedRate(currency, candidate) = 0
           /\ \E l \in DOMAIN cache_lookups :
                  cache_lookups[l] = Lookup(currency, candidate, FALSE)]_vars

\* C14: one call for a currency other than PLN makes at most 10 remote
\* fetches and always ends; when the cache misses and none of the 10 fetches
\* gives a rate the call raises and returns no rate, never a default; a rate
\* that is returned is the cached one or the one the remote table gave.
C14_BoundedSearch ==
    /\ [](/\ Len(fetched) <= 10
          /\ attempts <= 10
          /\ r_pc = "raised" =>
                 /\ Len(fetched) = 10
                 /\ rate_result = [rate |-> 0, date |-> 0]
                 /\ cache_lookups = <<Lookup(currency, target, FALSE)>>
          /\ (r_pc = "returned" /\ Upper(currency) # "PLN") =>
                 /\ rate_result.rate > 0
                 /\ \/ /\ fetched = <<>>
                       /\ cache_lookups = <<Lookup(currency, target, TRUE)>>
                       /\ rate_result.rate = CachedRate(currency, target)
                    \/ /\ fetched # <<>>
                       /\ rate_result.date = fetched[Len(fetched)]
                       /\ rate_result.rate =
                              ProviderMid(Upper(currency), rate_result.date))
    /\ <>(r_pc \in {"returned", "raised"})

\* Ten fetches in a row gave nothing and the call raised.
C14_Witness ==
    /\ r_pc = "raised"
    /\ Len(fetched) = 10
    /\ Upper(currency) # "PLN"

----------------------------------------------------------------------------
(* Claims about dividends                                                  *)

\* C15: every DIVIDEND record with no paired withholding record (no
\* same-symbol candidate, or the closest one more than 5 days away) is in the
\* dividend totals with credit 0, and the report's warnings list holds a
\* warning for it.
C15_UnmatchedDividendWarned ==
    v_pc = "done" =>
        \A k \in DOMAIN div_results :
            div_results[k].wht_tx = 0 =>
                /\ k \in DOMAIN dividend_summary.items
                /\ dividend_summary.items[k] = div_results[k]
                /\ div_results[k].wht_amount_pln = 0
                /\ \E w \in DOMAIN tax_warnings :
                       /\ tax_warnings[w].kind = "No matching WHT"
                       /\ tax_warnings[w].symbol = div_results[k].symbol

\* C16: the withholding record chosen for a DIVIDEND record is a same-symbol
\* TAX_WHT record of the same calendar day if there is one; otherwise a
\* same-symbol record at the least distance in days, taken only when that
\* distance is at most 5; otherwise none. No record of another symbol is
\* ever chosen.
C16_PairingRule ==
    /\ \A k \in DOMAIN div_results :
           LET r == div_results[k]
               txs == div_transactions
               d == r.div_tx
               W == {i \in DOMAIN txs :
                        txs[i].action = TAX_WHT /\ txs[i].symbol = txs[d].symbol}
               dist(i) == Abs((txs[i].trade_date \div 2) - (txs[d].trade_date \div 2))
               sameDay == {i \in W : dist(i) = 0}
               nearest == {i \in W : \A j \in W : dist(i) <= dist(j)}
           IN /\ txs[d].action = DIVIDEND
              /\ r.wht_tx # 0 => r.wht_tx \in W
              /\ IF sameDay # {} THEN r.wht_tx \in sameDay
                 ELSE IF \E i \in nearest : dist(i) <= 5 THEN r.wht_tx \in nearest
                 ELSE r.wht_tx = 0
    /\ v_pc = "done" =>
           Len(div_results) =
               Cardinality({i \in DOMAIN div_transactions :
                               div_transactions[i].action = DIVIDEND})

\* A dividend paired with a withholding record exactly 5 days away although
\* a record of another symbol is dated on the dividend's own day.
C16_Witness ==
    \E k \in DOMAIN div_results :
        LET r == div_results[k]
            txs == div_transactions
        IN /\ r.wht_tx # 0
           /\ Abs(DateOf(txs[r.wht_tx].trade_date) - DateOf(txs[r.div_tx].trade_date)) = 5
           /\ \E i \in DOMAIN txs :
                  /\ txs[i].action = TAX_WHT
                  /\ txs[i].symbol # txs[r.div_tx].symbol
                  /\ DateOf(txs[i].trade_date) = DateOf(txs[r.div_tx].trade_date)

\* C17: every DividendResult has tax_to_pay = max(0, local_tax - foreign tax
\* converted at the withholding record's own rate), local_tax being 19% of
\* the converted gross rounded half-up to 0.01; so 0 <= tax_to_pay <=
\* local_tax, and without a paired record tax_to_pay = local_tax.
C17_DividendTaxInvariant ==
    \A k \in DOMAIN div_results :
        LET r == div_results[k]
            div == div_transactions[r.div_tx]
            local_tax == r.polish_tax_due
            credited == r.wht_amount_pln
        IN /\ IsHalfUpOf(r.gross_amount_pln,
                         div.quantity * div.price * RateOr1(div.nbp_rate),
                         RateScale)
           /\ IsHalfUpOf(local_tax, 19 * r.gross_amount_pln, 100)
           /\ IF r.wht_tx = 0
              THEN credited = 0 /\ r.tax_to_pay_poland = local_tax
              ELSE LET wht == div_transactions[r.wht_tx]
                   IN IsHalfUpOf(credited,
                                 Abs(wht.quantity * wht.price)
                                     * RateOr1(wht.nbp_rate), RateScale)
           /\ r.tax_to_pay_poland =
                  (IF local_tax - credited >= 0 THEN local_tax - credited ELSE 0)
           /\ 0 <= r.tax_to_pay_poland
           /\ r.tax_to_pay_poland <= local_tax

\* A dividend whose 19% falls exactly halfway between two minor units and
\* whose withholding, converted at its own rate, exceeds the local tax.
C17_Witness ==
    \E k \in DOMAIN div_results :
        LET r == div_results[k]
        IN /\ r.wht_tx # 0
           /\ (19 * r.gross_amount_pln) % 100 = 50
           /\ r.wht_amount_pln > r.polish_tax_due
           /\ r.tax_to_pay_poland = 0
           /\ r.wht_nbp_rate # r.nbp_rate

----------------------------------------------------------------------------
(* Claims about the engine's robustness                                    *)

\* C18: process() ends with a result for every list of records, zero and
\* negative quantities and non-BUY/SELL actions included: it never raises,
\* no commission share is ever divided by a total quantity of zero, and the
\* only diagnostics are the orphan warnings.
C18_EngineNeverRaises ==
    /\ [](/\ pc # "raised"
          /\ \A i \in DOMAIN matches :
                 /\ transactions[matches[i].sell_tx].quantity > 0
                 /\ matches[i].buy_tx # 0 =>
                        transactions[matches[i].buy_tx].quantity > 0
                 /\ matches[i].quantity > 0
          /\ \A k \in DOMAIN warnings : warnings[k].kind = "BRAK KUPNA"
          /\ Len(warnings) = Cardinality(OrphanIdx))
    /\ <>(pc = "done")

\* A run over a zero-quantity SELL, a negative-quantity BUY and a record
\* that is neither BUY nor SELL has ended.
C18_Witness ==
    /\ pc = "done"
    /\ \E i \in DOMAIN transactions :
           transactions[i].action = SELL /\ transactions[i].quantity = 0
    /\ \E i \in DOMAIN transactions :
           transactions[i].action = BUY /\ transactions[i].quantity < 0
    /\ \E i \in DOMAIN transactions : transactions[i].action = DIVIDEND

----------------------------------------------------------------------------
(* Claims about the settlement date                                        *)

----------------------------------------------------------------------------
(* Claims about the bulk pre-fetch                                         *)

\* The last day fetch_table_for_year has to cover.
LastDayToCover == Min(Date(fetch_year, 12, 31), today)

\* C20: for a year that is not in the future fetch_table_for_year requests
\* consecutive, non-overlapping windows starting on 1 January, each of at
\* most 90 days, that together cover every day up to min(31 December, today)
\* exactly once; a window answered 404 or failing with a network error is
\* skipped (nothing of it is cached) and the following window is still
\* requested; the loop always terminates; for a future year no request is
\* made.
C20_PrefetchWindows ==
    /\ [](f_pc \in {"loop", "returned"} =>
            /\ \A i \in 1..Len(requests) :
                  /\ requests[i].chunk_start <= requests[i].chunk_end
                  /\ requests[i].chunk_end - requests[i].chunk_start + 1 <= 90
                  /\ requests[i].chunk_end <= LastDayToCover
                  /\ requests[i].chunk_start =
                        IF i = 1 THEN Date(fetch_year, 1, 1)
                        ELSE requests[i - 1].chunk_end + 1
            /\ \A row \in nbp_rates :
                  \E i \in 1..Len(requests) :
                     /\ requests[i].outcome = "ok"
                     /\ requests[i].chunk_start <= row.rate_date
                     /\ row.rate_date <= requests[i].chunk_end
            /\ (f_pc = "returned" =>
                  IF Date(fetch_year, 1, 1) > today
                  THEN requests = <<>>
                  ELSE \A d \in Date(fetch_year, 1, 1)..LastDayToCover :
                          Cardinality({i \in 1..Len(requests) :
                                         /\ requests[i].chunk_start <= d
                                         /\ d <= requests[i].chunk_end}) = 1))
    /\ <>(f_pc = "returned")

\* The leap year 2024 fetched whole in five windows, the first answered 404,
\* the second failing, the third stored.
C20_Witness ==
    /\ f_pc = "returned"
    /\ Len(requests) = 5
    /\ requests[1].outcome = "404"
    /\ requests[2].outcome = "error"
    /\ requests[3].outcome = "ok"
    /\ requests[5].chunk_end = Date(2024, 12, 31)
    /\ nbp_rates # {}

----------------------------------------------------------------------------
(* Claims about the cache under concurrent writers                         *)

\* The rows a writer that stored has written for the key (cur, d).
WrittenFor(w, cur, d) ==
    {i \in DOMAIN writers[w].rows :
        /\ Upper(writers[w].rows[i].currency) = cur
        /\ writers[w].rows[i].rate_date = d}

----------------------------------------------------------------------------
(* Claims about the commission of a transaction split over matches         *)

RECURSIVE SumInts(_)
SumInts(s) == IF s = <<>> THEN 0 ELSE Head(s) + SumInts(Tail(s))

\* The quantity of transaction t that is in matches, on t's own side.
QtyInMatches(t) ==
    SumInts([i \in DOMAIN matches |->
                IF (transactions[t].action = BUY /\ matches[i].buy_tx = t)
                   \/ (transactions[t].action = SELL /\ matches[i].sell_tx = t)
                THEN matches[i].quantity ELSE 0])

\* The commission shares the matches allocate to transaction t.
SharesInMatches(t) ==
    SumInts([i \in DOMAIN matches |->
                IF transactions[t].action = BUY /\ matches[i].buy_tx = t
                THEN matches[i].buy_commission
                ELSE IF transactions[t].action = SELL /\ matches[i].sell_tx = t
                     THEN matches[i].sell_commission
                     ELSE 0])

\* C22: for every BUY or SELL whose whole quantity ends up in matches, the
\* commission shares allocated to those matches on its side sum exactly to
\* the transaction's commission.
C22_CommissionConservation ==
    pc = "done" =>
        \A t \in DOMAIN transactions :
            (/\ transactions[t].action \in {BUY, SELL}
             /\ QtyInMatches(t) = transactions[t].quantity)
                => SharesInMatches(t) = transactions[t].commission

----------------------------------------------------------------------------
(* Claims about generate() as a whole                                      *)

\* The sections of the report that do not depend on the analytics step.
PrimarySections ==
    <<total_revenue, total_costs, profit, tax_due, year_matches,
      dividend_summary, pit_zg, open_pos>>

\* C23: if the portfolio-analytics step of generate() raises, generate()
\* still returns a report whose capital-gains summary, dividend summary,
\* country breakdown and open positions are those of the run in which the
\* step succeeds, with no portfolio section and exactly one warning
\* appended for the failure.
C23_AnalyticsFailure ==
    /\ [][(g_pc = "analytics" /\ g_pc' = "return") =>
             /\ PrimarySections' = PrimarySections
             /\ (portfolio' = None =>
                    /\ Len(tax_warnings') = Len(tax_warnings) + 1
                    /\ SubSeq(tax_warnings', 1, Len(tax_warnings)) = tax_warnings
                    /\ tax_warnings'[Len(tax_warnings')].kind
                           = "Blad analizy portfela")
             /\ (portfolio' # None => tax_warnings' = tax_warnings)]_vars
    /\ [](g_pc = "return" => portfolio = None \/ Len(portfolio) = 1)
    /\ [](g_pc = "returned" =>
            /\ Len(report) = 1
            /\ report[1].capital_gains =
                   [revenue_pln |-> total_revenue, costs_pln |-> total_costs,
                    profit_pln |-> profit, tax_due |-> tax_due,
                    matches |-> year_matches]
            /\ report[1].dividends = dividend_summary
            /\ report[1].pit_zg = pit_zg
            /\ report[1].open_positions = open_pos
            /\ report[1].portfolio = portfolio
            /\ report[1].warnings = tax_warnings)

\* The year of trading reported for 2025 although the analytics step
\* raised: tax is due, a dividend is listed, a lot is still open.
C23_Witness ==
    /\ g_pc = "returned"
    /\ gen_transactions # <<>>
    /\ report[1].portfolio = None
    /\ report[1].capital_gains.tax_due > 0
    /\ report[1].dividends.items # <<>>
    /\ report[1].pit_zg # <<>>
    /\ report[1].open_positions # <<>>
    /\ report[1].warnings[Len(report[1].warnings)].kind = "Blad analizy portfela"

\* The enrichment loop handles the record at g_pos in this step.
EnrichmentStep == g_pc = "enrich" /\ g_pos' = g_pos + 1

\* The try block of the loop did not run to its end for the record: its
\* commission was never converted.
RateFailed(tx) == Upper(tx.currency) # "PLN" /\ tx.commission_pln = NoAmount

TradesUpTo(n) ==
    Cardinality({i \in 1..n : gen_transactions[i].action \in {BUY, SELL}})

\* C26: in generate() every transaction has been through rate enrichment
\* before the FIFO engine starts: the engine is handed the BUY/SELL records
\* of every year, each with a resolved rate; the aggregation of the matches
\* and the dividend calculation start only after the engine has finished.
C26_EnrichmentPrecedesMatching ==
    /\ pc # "idle" =>
          /\ g_pos > Len(gen_transactions)
          /\ \A i \in DOMAIN gen_transactions :
                gen_transactions[i].nbp_rate # 0
          /\ Len(transactions) = TradesUpTo(Len(gen_transactions))
          /\ \A i \in DOMAIN transactions :
                /\ transactions[i].action \in {BUY, SELL}
                /\ transactions[i].nbp_rate # 0
                /\ \E j \in DOMAIN gen_transactions :
                      transactions[i] = gen_transactions[j]
    /\ t_pc # "filter" => pc = "done"
    /\ v_pc # "idle" => pc = "done" /\ t_pc = "done"
    /\ g_pc \in {"dividends", "analytics", "return", "returned"} => pc = "done"

\* The engine has matched a sell of the tax year 2025 with a buy of 2024,
\* both enriched from the table, and the dividend calculation has started.
C26_Witness ==
    /\ g_pc = "dividends"
    /\ v_pc # "idle"
    /\ pc = "done"
    /\ tax_year = 2025
    /\ Len(transactions) = 2
    /\ YearOf(transactions[1].trade_date) = 2024
    /\ transactions[1].nbp_rate > RateScale
    /\ transactions[2].nbp_rate > RateScale
    /\ Len(matches) = 1
    /\ ~matches[1].is_orphan

----------------------------------------------------------------------------
(* Claims about the lots and the queues of the engine                      *)

\* The step appends a match while the for-loop handles a BUY or a SELL.
MatchAppended ==
    /\ pc \in {"cover", "match"}
    /\ Len(matches') = Len(matches) + 1

\* The queue after its head lot gave up q units.
AfterConsuming(queue, q) ==
    IF Head(queue).remaining_qty = q THEN Tail(queue)
    ELSE <<Lot(Head(queue).transaction, Head(queue).remaining_qty - q)>>
             \o Tail(queue)

\* Every lot of the queue is in the other queue, unchanged and in order,
\* which may have one more lot at its end.
OnlyAppendedTo(queue, after) ==
    \/ after = queue
    \/ Len(after) = Len(queue) + 1 /\ SubSeq(after, 1, Len(queue)) = queue

\* C27: each match step of process() decreases the remaining quantity of
\* exactly one lot, the head of the queue it reads, by exactly the matched
\* quantity, and the lot leaves the queue only if that brought it to zero;
\* no other step removes or changes a lot; after each transaction every lot
\* in a buy or short queue has 0 < remaining <= its transaction's quantity.
C27_PartialConsumption ==
    /\ [][/\ MatchAppended =>
                LET m == matches'[Len(matches')]
                    sym == CurTx.symbol
                IN /\ m.quantity > 0
                   /\ \A s \in Symbols \ {sym} :
                         /\ buy_queues'[s] = buy_queues[s]
                         /\ short_queues'[s] = short_queues[s]
                   /\ pc = "cover" =>
                         /\ short_queues[sym] # <<>>
                         /\ m.quantity <= Head(short_queues[sym]).remaining_qty
                         /\ short_queues'[sym]
                                = AfterConsuming(short_queues[sym], m.quantity)
                         /\ buy_queues'[sym] = buy_queues[sym]
                   /\ pc = "match" =>
                         /\ buy_queues[sym] # <<>>
                         /\ m.quantity <= Head(buy_queues[sym]).remaining_qty
                         /\ buy_queues'[sym]
                                = AfterConsuming(buy_queues[sym], m.quantity)
                         /\ short_queues'[sym] = short_queues[sym]
          /\ (~MatchAppended /\ pc \in {"loop", "cover", "match"}) =>
                \A s \in Symbols :
                   /\ OnlyAppendedTo(buy_queues[s], buy_queues'[s])
                   /\ OnlyAppendedTo(short_queues[s], short_queues'[s])]_vars
    /\ [](pc = "loop" =>
             \A s \in Symbols :
                /\ \A i \in DOMAIN buy_queues[s] :
                      /\ buy_queues[s][i].remaining_qty > 0
                      /\ buy_queues[s][i].remaining_qty
                             <= transactions[buy_queues[s][i].transaction].quantity
                /\ \A i \in DOMAIN short_queues[s] :
                      /\ short_queues[s][i].remaining_qty > 0
                      /\ short_queues[s][i].remaining_qty
                             <= transactions[short_queues[s][i].transaction].quantity)

\* A buy of 2 of which a sell of 1 took one unit: the lot is still in its
\* queue with 1 left; a second sell of 1 would evict it.
C27_Witness ==
    /\ pc = "loop"
    /\ pos = 3
    /\ Len(matches) = 1
    /\ matches[1].quantity = 1
    /\ \E s \in Symbols :
          /\ Len(buy_queues[s]) = 1
          /\ buy_queues[s][1].remaining_qty = 1
          /\ transactions[buy_queues[s][1].transaction].quantity = 2

\* C28: for every symbol the buy-lot queue and the short-lot queue are
\* never both non-empty; a buy lot is pushed only when the symbol's short
\* queue is empty and a short lot only when its buy queue is empty.
C28_QueueExclusivity ==
    /\ [](\A s \in Symbols : buy_queues[s] = <<>> \/ short_queues[s] = <<>>)
    /\ [][\A s \in Symbols :
            /\ Len(buy_queues'[s]) > Len(buy_queues[s]) =>
                  /\ pc = "cover"
                  /\ s = CurTx.symbol
                  /\ short_queues[s] = <<>>
                  /\ short_queues'[s] = <<>>
            /\ Len(short_queues'[s]) > Len(short_queues[s]) =>
                  /\ pc = "match"
                  /\ s = CurTx.symbol
                  /\ buy_queues[s] = <<>>
                  /\ buy_queues'[s] = <<>>]_vars

\* A short sale of 1 covered by a buy of 2: the short queue was emptied and
\* the buy's last unit was pushed as a lot.
C28_Witness ==
    /\ pc = "loop"
    /\ pos = 3
    /\ Len(matches) = 1
    /\ matches[1].is_short
    /\ \E s \in Symbols :
          /\ s \in Range(short_order)
          /\ short_queues[s] = <<>>
          /\ Len(buy_queues[s]) = 1
          /\ buy_queues[s][1].remaining_qty = 1

\* C29: a match is flagged is_short exactly when its sell's trade
\* timestamp is earlier than its buy's, a SELL and a BUY of one symbol with
\* the same timestamp included. Refuted: the flag records that the SELL was
\* processed first, and the stable sort leaves records of one timestamp in
\* their order in the list, so a SELL listed before a BUY of the same
\* timestamp is covered by it and flagged.
C29_ShortIffSellEarlier ==
    \A i \in DOMAIN matches :
       matches[i].is_short <=> matches[i].sell_date < matches[i].buy_date

----------------------------------------------------------------------------
(* Claims about the pairing of withholdings with dividends                 *)

\* abs(quantity * price) summed over the TAX_WHT records given to calculate().
WithholdingSupplied ==
    SumInts([k \in DOMAIN wht_entries |->
                Abs(div_transactions[wht_entries[k]].quantity
                        * div_transactions[wht_entries[k]].price)])

\* C30: within one calculate() call a TAX_WHT record is paired with at most
\* one DIVIDEND record, so the withholding credited over all the results
\* never exceeds the withholding supplied. Refuted: _find_matching_wht
\* searches the whole list of withholdings for every dividend and never
\* takes a used one out, so two dividends of one symbol near one
\* withholding are both credited with it.
C30_WithholdingCreditedOnce ==
    /\ \A w \in DOMAIN div_transactions :
          Cardinality({i \in DOMAIN div_results : div_results[i].wht_tx = w}) <= 1
    /\ v_pc \in {"loop", "done"} =>
          SumField(div_results, "wht_amount") <= WithholdingSupplied

----------------------------------------------------------------------------
(* Claims about the independence of the symbols                            *)

\* C24: the matches, orphan warnings and open positions process() produces
\* for a symbol are those it produces from the symbol's own transactions in
\* their relative order; transactions of other symbols, wherever they stand
\* in the list, change nothing of them.
C24_SymbolIndependence ==
    (x_pc = "only" /\ pc = "done") => ResultFor(x_symbol) = x_first[1]

\* A list of three records whose first is of another symbol and sells
\* short; the compared symbol's buy and sell are matched.
C24_Witness ==
    /\ x_pc = "only"
    /\ pc = "done"
    /\ Len(x_first[2]) = 3
    /\ x_first[2][1].symbol # x_symbol
    /\ x_first[2][1].action = SELL
    /\ Len(transactions) = 2
    /\ Len(x_first[1].matches) = 1
    /\ ~x_first[1].matches[1].is_orphan
    /\ matches # <<>>

====
